---- MODULE Spec2Model ----
(***************************************************************************)
(* A model of the indexed-colour framebuffer (IndexedPixelBuffer), of the  *)
(* two-texture upload pass of GLRenderer and of the Mesh3D rasteriser of   *)
(* fantacon-2d.                                                            *)
(*                                                                         *)
(* Numbers.  C++ int is 32 bits wide; additions that can overflow for the  *)
(* arguments drawn here (fillRect's x + width) wrap as two's complement.   *)
(* uint8_t values are kept modulo 256.  The float interpolation of         *)
(* fillTriangle and the float projection of Mesh3D are computed exactly    *)
(* (rational arithmetic, truncation toward zero): for the small integer    *)
(* coordinates drawn here the float result and the exact result agree.     *)
(***************************************************************************)
EXTENDS Integers, Sequences, FiniteSets, Bags, TLC

(* ---------------------------- bounds ---------------------------------- *)
BufW == 3
BufH == 2
Margin == 1
MaxSteps == 4

(* ------------------------ program constants --------------------------- *)
PaletteSize == 256
IntMax == 2147483647

IntMin == (0 - IntMax) - 1

\* the sum of two ints as a 32-bit build computes it: a + b, wrapped by 2^32
\* when it leaves IntMin..IntMax (no intermediate value leaves that range)
IntAdd(a, b) ==
    IF b > 0 /\ a > IntMax - b
    THEN IntMin + ((a - IntMax) + (b - 1))
    ELSE IF b < 0 /\ a < IntMin - b
         THEN IntMax + ((a - IntMin) + (b + 1))
         ELSE a + b

Max(a, b) == IF a >= b THEN a ELSE b
Min(a, b) == IF a <= b THEN a ELSE b
Abs(a) == IF a < 0 THEN -a ELSE a

\* static_cast<int> of the quotient n/d (d > 0): truncation toward zero
Trunc(n, d) == IF n >= 0 THEN n \div d ELSE -((-n) \div d)

(* ------------------------------ Color --------------------------------- *)
\* Sequencing: v is evaluated once, then F is applied to its value (a loop
\* hands the buffer one iteration leaves to the next iteration).
Then(v, F(_)) == CHOOSE r \in {F(x) : x \in {v}} : TRUE

Color(r, g, b, a) == [r |-> r, g |-> g, b |-> b, a |-> a]

PalIdx == 0..(PaletteSize - 1)

\* the palette a new buffer starts with
GrayPalette == [i \in PalIdx |-> Color(i, i, i, 255)]

(* ------------------------- IndexedPixelBuffer ------------------------- *)
\* texture: texture_, empty while null, else <<the words of the streaming
\* texture>>
\* touched: the cells (x,y) the drawing code addressed a write to since the
\* running operation began (history, not a field of the class)
NewBuffer(w, h) ==
    [width |-> w, height |-> h,
     pixels |-> [k \in 1..(w * h) |-> 0],
     palette |-> GrayPalette,
     texture |-> <<>>,
     visible |-> TRUE,
     dirty |-> TRUE,
     glIndexTexture |-> 0,
     glPaletteTexture |-> 0,
     pixelsDirty |-> TRUE,
     paletteDirty |-> TRUE,
     touched |-> {}]

markPixelsDirty(b) == [b EXCEPT !.pixelsDirty = TRUE, !.dirty = TRUE]
\* (bug variant: one flag for both resources)
markPaletteDirtyAll(b) == [b EXCEPT !.paletteDirty = TRUE, !.pixelsDirty = TRUE, !.dirty = TRUE]
markPaletteDirty(b) == [b EXCEPT !.paletteDirty = TRUE, !.dirty = TRUE]
markPixelsClean(b) == [b EXCEPT !.pixelsDirty = FALSE]
markPaletteClean(b) == [b EXCEPT !.paletteDirty = FALSE]
markClean(b) == [b EXCEPT !.dirty = FALSE]

InBounds(b, x, y) == x >= 0 /\ x < b.width /\ y >= 0 /\ y < b.height

\* (bug variant: the offset computed column-major)
StoreTransposed(b, x, y, i) ==
    LET off == x * b.height + y
    IN  [b EXCEPT !.pixels = IF off >= 0 /\ off < Len(b.pixels)
                             THEN [@ EXCEPT ![off + 1] = i]
                             ELSE @,
                  !.touched = @ \cup {<<x, y>>}]

\* pixels_[y * width_ + x] = i.  A store whose offset is outside the vector
\* is undefined behaviour; it is recorded in touched and otherwise dropped.
Store(b, x, y, i) ==
    LET off == y * b.width + x
    IN  [b EXCEPT !.pixels = IF off >= 0 /\ off < Len(b.pixels)
                             THEN [@ EXCEPT ![off + 1] = i]
                             ELSE @,
                  !.touched = @ \cup {<<x, y>>}]

\* (bug variants: no bounds test; a bounds test that lets x = width and
\* y = height through)
setPixelUnchecked(b, x, y, i) == markPixelsDirty(Store(b, x, y, i))

setPixelInclusive(b, x, y, i) ==
    IF x < 0 \/ x > b.width \/ y < 0 \/ y > b.height
    THEN b
    ELSE markPixelsDirty(Store(b, x, y, i))

setPixel(b, x, y, i) ==
    IF x < 0 \/ x >= b.width \/ y < 0 \/ y >= b.height
    THEN b
    ELSE markPixelsDirty(Store(b, x, y, i))

getPixel(b, x, y) ==
    IF x < 0 \/ x >= b.width \/ y < 0 \/ y >= b.height
    THEN 0
    ELSE b.pixels[y * b.width + x + 1]

\* (bug variant: the loop is left before the end point is set)
RECURSIVE lineLoopOpen(_, _, _, _, _, _, _, _, _, _, _)
lineLoopOpen(b, x0, y0, x1, y1, dx, dy, sx, sy, err, i) ==
    IF x0 = x1 /\ y0 = y1
    THEN b
    ELSE LET e2 == 2 * err
             stepX == e2 > -dy
             stepY == e2 < dx
             errA == IF stepX THEN err - dy ELSE err
             nx == IF stepX THEN x0 + sx ELSE x0
             errB == IF stepY THEN errA + dx ELSE errA
             ny == IF stepY THEN y0 + sy ELSE y0
         IN  Then(<<setPixel(b, x0, y0, i), nx, ny, errB>>,
                  LAMBDA s : lineLoopOpen(s[1], s[2], s[3], x1, y1, dx, dy, sx, sy, s[4], i))

\* the while (true) loop of drawLine
RECURSIVE lineLoop(_, _, _, _, _, _, _, _, _, _, _)
lineLoop(b, x0, y0, x1, y1, dx, dy, sx, sy, err, i) ==
    IF x0 = x1 /\ y0 = y1
    THEN setPixel(b, x0, y0, i)
    ELSE LET e2 == 2 * err
             stepX == e2 > -dy
             stepY == e2 < dx
             errA == IF stepX THEN err - dy ELSE err
             nx == IF stepX THEN x0 + sx ELSE x0
             errB == IF stepY THEN errA + dx ELSE errA
             ny == IF stepY THEN y0 + sy ELSE y0
         IN  Then(<<setPixel(b, x0, y0, i), nx, ny, errB>>,
                  LAMBDA s : lineLoop(s[1], s[2], s[3], x1, y1, dx, dy, sx, sy, s[4], i))

drawLine(b, x0, y0, x1, y1, i) ==
    LET dx == Abs(x1 - x0)
        dy == Abs(y1 - y0)
        sx == IF x0 < x1 THEN 1 ELSE -1
        sy == IF y0 < y1 THEN 1 ELSE -1
    IN  lineLoop(b, x0, y0, x1, y1, dx, dy, sx, sy, dx - dy, i)

\* static_cast<int>(xa + (float(k) / d) * (xb - xa)), d > 0
Lerp(xa, xb, k, d) == Trunc(xa * d + k * (xb - xa), d)

\* (bug variant: the span excludes its right end)
RECURSIVE scanLoopOpen(_, _, _, _, _)
scanLoopOpen(b, y, x, xEnd, i) ==
    IF x >= xEnd THEN b
    ELSE Then(setPixel(b, x, y, i), LAMBDA nb : scanLoopOpen(nb, y, x + 1, xEnd, i))

\* the for loop of the fillScanline lambda
RECURSIVE scanLoop(_, _, _, _, _)
scanLoop(b, y, x, xEnd, i) ==
    IF x > xEnd THEN b
    ELSE Then(setPixel(b, x, y, i), LAMBDA nb : scanLoop(nb, y, x + 1, xEnd, i))

fillScanline(b, y, xStart, xEnd, i) ==
    IF xStart > xEnd THEN scanLoop(b, y, xEnd, xStart, i)
                     ELSE scanLoop(b, y, xStart, xEnd, i)

\* (bug variant: the swap of the second and third vertex is missing)
SortByYTwoSwaps(p0, p1, p2) ==
    LET a == IF p1[2] < p0[2] THEN <<p1, p0, p2>> ELSE <<p0, p1, p2>>
    IN  IF a[3][2] < a[1][2] THEN <<a[3], a[2], a[1]>> ELSE a

\* the three conditional swaps that order the vertices by Y
SortByY(p0, p1, p2) ==
    LET a == IF p1[2] < p0[2] THEN <<p1, p0, p2>> ELSE <<p0, p1, p2>>
        c == IF a[3][2] < a[1][2] THEN <<a[3], a[2], a[1]>> ELSE a
    IN  IF c[3][2] < c[2][2] THEN <<c[1], c[3], c[2]>> ELSE c

\* X on the long edge and on the short edge at scanline y (vertices sorted)
EdgeXA(x0, y0, x2, y2, y) ==
    IF y2 > y0 THEN Lerp(x0, x2, y - y0, y2 - y0) ELSE x0

EdgeXB(x0, y0, x1, y1, x2, y2, y) ==
    IF y < y1
    THEN IF y1 > y0 THEN Lerp(x0, x1, y - y0, y1 - y0) ELSE x0
    ELSE IF y2 > y1 THEN Lerp(x1, x2, y - y1, y2 - y1) ELSE x1

\* the for (y = y0; y <= y2; ++y) loop of fillTriangle
RECURSIVE triLoop(_, _, _, _, _, _, _, _, _)
triLoop(b, x0, y0, x1, y1, x2, y2, y, i) ==
    IF y > y2
    THEN b
    ELSE Then(fillScanline(b, y, EdgeXA(x0, y0, x2, y2, y),
                           EdgeXB(x0, y0, x1, y1, x2, y2, y), i),
              LAMBDA nb : triLoop(nb, x0, y0, x1, y1, x2, y2, y + 1, i))

\* (bug variant: no early return for vertices on one horizontal line)
fillTriangleFlat(b, ax, ay, bx, by, cx, cy, i) ==
    LET s == SortByY(<<ax, ay>>, <<bx, by>>, <<cx, cy>>)
    IN  triLoop(b, s[1][1], s[1][2], s[2][1], s[2][2], s[3][1], s[3][2], s[1][2], i)

fillTriangle(b, ax, ay, bx, by, cx, cy, i) ==
    LET s == SortByY(<<ax, ay>>, <<bx, by>>, <<cx, cy>>)
        x0 == s[1][1]
        y0 == s[1][2]
        x1 == s[2][1]
        y1 == s[2][2]
        x2 == s[3][1]
        y2 == s[3][2]
    IN  IF y0 = y2
        THEN b
        ELSE triLoop(b, x0, y0, x1, y1, x2, y2, y0, i)

\* std::fill_n(&pixels_[row * width_ + x1], x2 - x1, i) for one row
RECURSIVE fillRow(_, _, _, _, _)
fillRow(b, row, x, xEnd, i) ==
    IF x >= xEnd THEN b
    ELSE Then(Store(b, x, row, i), LAMBDA nb : fillRow(nb, row, x + 1, xEnd, i))

RECURSIVE rectRows(_, _, _, _, _, _)
rectRows(b, row, rowEnd, x1, x2, i) ==
    IF row >= rowEnd
    THEN b
    ELSE Then(fillRow(b, row, x1, x2, i), LAMBDA nb : rectRows(nb, row + 1, rowEnd, x1, x2, i))

\* (bug variant: the bulk fill forgets to mark the pixels dirty)
fillRectNoMark(b, x, y, w, h, i) ==
    LET x1 == Max(0, x)
        y1 == Max(0, y)
        x2 == Min(b.width, IntAdd(x, w))
        y2 == Min(b.height, IntAdd(y, h))
    IN  IF x1 >= x2 \/ y1 >= y2
        THEN b
        ELSE rectRows(b, y1, y2, x1, x2, i)

fillRect(b, x, y, w, h, i) ==
    LET x1 == Max(0, x)
        y1 == Max(0, y)
        x2 == Min(b.width, IntAdd(x, w))
        y2 == Min(b.height, IntAdd(y, h))
    IN  IF x1 >= x2 \/ y1 >= y2
        THEN b
        ELSE markPixelsDirty(rectRows(b, y1, y2, x1, x2, i))

\* (bug variant: the clear touches the first row only)
clearFirstRow(b, i) ==
    markPixelsDirty([b EXCEPT !.pixels = [k \in 1..Len(b.pixels) |->
                                             IF k <= b.width THEN i ELSE b.pixels[k]]])

\* (bug variant: the fill stops one element short of the end)
clearShort(b, i) ==
    markPixelsDirty([b EXCEPT !.pixels = [k \in 1..Len(b.pixels) |->
                                             IF k < Len(b.pixels) THEN i ELSE b.pixels[k]]])

clear(b, i) ==
    markPixelsDirty([b EXCEPT !.pixels = [k \in 1..Len(b.pixels) |-> i],
                              !.touched = @ \cup {<<(k - 1) % b.width, (k - 1) \div b.width>>
                                                    : k \in 1..Len(b.pixels)}])

fill(b, i) == clear(b, i)

setPaletteEntry(b, index, color) ==
    markPaletteDirty([b EXCEPT !.palette = [@ EXCEPT ![index] = color]])

getPaletteEntry(b, index) == b.palette[index]

\* (bug variant: the copy stops one entry short)
setPaletteShort(b, pal) ==
    markPaletteDirty([b EXCEPT !.palette = [k \in PalIdx |->
                                               IF k < PaletteSize - 1 THEN pal[k] ELSE @[k]]])

setPalette(b, pal) == markPaletteDirty([b EXCEPT !.palette = pal])

\* getPalette(): the reference to palette_
getPalette(b) == b.palette

\* the 4 * 256 bytes of a std::array<Color, 256>: r, g, b, a of entry 0, ...
PaletteBytes(pal) ==
    [j \in 1..(4 * PaletteSize) |->
        LET c == pal[(j - 1) \div 4]
            ch == (j - 1) % 4
        IN  IF ch = 0 THEN c.r ELSE IF ch = 1 THEN c.g ELSE IF ch = 2 THEN c.b ELSE c.a]

\* the overload taking a pointer to 256 colours; NullPtr is the null pointer
\* a pointer is <<>> (null) or <<v>> (pointing to v)
NullPtr == <<>>
PtrTo(v) == <<v>>

setPalettePtr(b, paletteData) ==
    IF paletteData = NullPtr
    THEN b
    ELSE markPaletteDirty([b EXCEPT !.palette = [k \in PalIdx |-> paletteData[1][k]]])

\* loadPalette(const PalettePtr&): a Palette resource holds 256 colours
loadPalette(b, palettePtr) ==
    IF palettePtr # NullPtr THEN setPalette(b, palettePtr[1]) ELSE b

(* ------------------- loadFromFile: palette quantization --------------- *)
\* A ColorBox holds its colours as a bag: every read of a box (its ranges,
\* its average, the two halves after a sort) depends on what the box holds
\* and not on the order of its vector.
SetMax(S) == CHOOSE x \in S : \A y \in S : y <= x
SetMin(S) == CHOOSE x \in S : \A y \in S : x <= y

BagOf(colors) ==
    [c \in {colors[i] : i \in 1..Len(colors)} |->
        Cardinality({i \in 1..Len(colors) : colors[i] = c})]

\* ColorBox::computeRange: <<rRange, gRange, bRange>>
computeRange(box) ==
    LET cs == BagToSet(box)
    IN  IF cs = {} THEN <<0, 0, 0>>
        ELSE <<SetMax({c.r : c \in cs}) - SetMin({c.r : c \in cs}),
               SetMax({c.g : c \in cs}) - SetMin({c.g : c \in cs}),
               SetMax({c.b : c \in cs}) - SetMin({c.b : c \in cs})>>

TotalRange(box) ==
    Then(computeRange(box), LAMBDA rg : rg[1] + rg[2] + rg[3])

\* <<rSum, gSum, bSum, aSum>> over the colours cs of the box (uint32_t sums:
\* they stay below 2^32 for fewer than 2^24 colours)
RECURSIVE ChannelSums(_, _)
ChannelSums(box, cs) ==
    IF cs = {} THEN <<0, 0, 0, 0>>
    ELSE Then(CHOOSE c \in cs : TRUE, LAMBDA c :
            Then(ChannelSums(box, cs \ {c}), LAMBDA sum :
                <<sum[1] + box[c] * c.r, sum[2] + box[c] * c.g,
                  sum[3] + box[c] * c.b, sum[4] + box[c] * c.a>>))

\* ColorBox::getAverageColor
getAverageColor(box) ==
    IF BagToSet(box) = {} THEN Color(0, 0, 0, 255)
    ELSE Then(<<ChannelSums(box, BagToSet(box)), BagCardinality(box)>>, LAMBDA sc :
            Color(sc[1][1] \div sc[2], sc[1][2] \div sc[2],
                  sc[1][3] \div sc[2], sc[1][4] \div sc[2]))

\* one iteration of the loop of findNearestPaletteIndex;
\* st = <<i, bestIndex, bestDistance>>
\* (bug variant: a later entry at the same distance replaces the best)
NearestStepLast(color, palette, st) ==
    LET dr == color.r - palette[st[1]].r
        dg == color.g - palette[st[1]].g
        db == color.b - palette[st[1]].b
        distance == dr * dr + dg * dg + db * db
    IN  IF distance <= st[3]
        THEN <<st[1] + 1, st[1], distance>>
        ELSE <<st[1] + 1, st[2], st[3]>>

NearestStep(color, palette, st) ==
    LET dr == color.r - palette[st[1]].r
        dg == color.g - palette[st[1]].g
        db == color.b - palette[st[1]].b
        distance == dr * dr + dg * dg + db * db
    IN  IF distance < st[3]
        THEN <<st[1] + 1, st[1], distance>>
        ELSE <<st[1] + 1, st[2], st[3]>>

\* the next n iterations of the loop, in order: the first half of them, then
\* the rest from where the first half ended
RECURSIVE NearestLoop(_, _, _, _)
NearestLoop(color, palette, n, st) ==
    IF n <= 0 THEN st
    ELSE IF n = 1 THEN NearestStep(color, palette, st)
    ELSE Then(NearestLoop(color, palette, n \div 2, st),
              LAMBDA half : NearestLoop(color, palette, n - n \div 2, half))

\* for (i = 0; i < paletteSize; ++i) ...; static_cast<uint8_t>(bestIndex)
findNearestPaletteIndex(color, palette, paletteSize) ==
    NearestLoop(color, palette, paletteSize, <<0, 0, IntMax>>)[2] % 256

\* the box the split loop picks, 1-based: the first box of the largest total
\* range (totalRange > largestRange); 0 when largestRange stays 0
LargestIdx(boxes) ==
    Then({<<TotalRange(boxes[i]), i>> : i \in 1..Len(boxes)}, LAMBDA R :
        Then(SetMax({0} \cup {p[1] : p \in R}), LAMBDA largestRange :
            IF largestRange = 0 THEN 0
            ELSE SetMin({p[2] : p \in {q \in R : q[1] = largestRange}})))

\* the channel the box is sorted along
SplitKey(box) ==
    Then(computeRange(box), LAMBDA rg :
        IF rg[1] >= rg[2] /\ rg[1] >= rg[3] THEN "r"
        ELSE IF rg[2] >= rg[3] THEN "g" ELSE "b")

Key(c, ch) == IF ch = "r" THEN c.r ELSE IF ch = "g" THEN c.g ELSE c.b

\* (bug variant: the split point rounded the other way)
MidLow(box) == (BagCardinality(box) - 1) \div 2

\* size_t mid = box.colors.size() / 2
Mid(box) == BagCardinality(box) \div 2

\* std::sort along the channel, then the vector cut at mid: the pairs
\* <<what stays in the box, what the new box gets>>.  std::sort leaves colours
\* of equal key in an unspecified order, so of the colours whose key is the
\* key at the cut any mid - (number of smaller keys) may stay.
Halves(box) ==
    LET cs == BagToSet(box)
        Part(S) == [c \in S |-> box[c]]
    IN  Then(<<SplitKey(box), Mid(box)>>, LAMBDA km :
          LET Below(t) == Part({c \in cs : Key(c, km[1]) < t})
              At(t) == Part({c \in cs : Key(c, km[1]) = t})
          IN  Then(CHOOSE t \in {Key(c, km[1]) : c \in cs} :
                      /\ BagCardinality(Below(t)) <= km[2]
                      /\ km[2] < BagCardinality(Below(t)) + BagCardinality(At(t)),
                   LAMBDA t :
                      Then(<<Below(t), At(t)>>, LAMBDA ba :
                          {<<ba[1] (+) part, box (-) (ba[1] (+) part)>> :
                              part \in {sb \in SubBag(ba[2]) :
                                  BagCardinality(sb) = km[2] - BagCardinality(ba[1])}})))

\* newPalette after the split loop: the box averages, then black
BoxPalette(boxes) ==
    [i \in PalIdx |-> IF i < Len(boxes) THEN getAverageColor(boxes[i + 1])
                      ELSE Color(0, 0, 0, 255)]

\* the last loop of loadFromFile: every image pixel that falls inside the
\* buffer is stored as the index nearest to its colour.  The image is
\* colors, row by row, imgWidth wide; dest = <<destX, destY>>.
Blit(b, colors, imgWidth, dest, newPalette) ==
    LET imgHeight == Len(colors) \div imgWidth
        Covered(x, y) == /\ x - dest[1] >= 0 /\ x - dest[1] < imgWidth
                         /\ y - dest[2] >= 0 /\ y - dest[2] < imgHeight
        At(x, y) == colors[(y - dest[2]) * imgWidth + (x - dest[1]) + 1]
    IN  [b EXCEPT
            !.pixels = [k \in 1..Len(b.pixels) |->
                LET x == (k - 1) % b.width
                    y == (k - 1) \div b.width
                IN  IF Covered(x, y)
                    THEN findNearestPaletteIndex(At(x, y), newPalette, PaletteSize)
                    ELSE b.pixels[k]],
            !.touched = @ \cup {c \in (0..(b.width - 1)) \X (0..(b.height - 1)) :
                                   Covered(c[1], c[2])}]

(* ----------------------------- GLRenderer ----------------------------- *)
\* The GL context is the sequence of textures created so far; texture id k
\* names textures[k], id 0 is "no texture".  A texture created with a null
\* data pointer has unspecified content until its first upload.
Unspec == 0 - 1
NewGL == [textures |-> <<>>]

createIndexedTexture(g, w, h) ==
    [g EXCEPT !.textures = Append(@, [k \in 1..(w * h) |-> Unspec])]

createPaletteTexture(g) ==
    [g EXCEPT !.textures = Append(@, [k \in PalIdx |-> Color(Unspec, Unspec, Unspec, Unspec)])]

updateIndexedTexture(g, textureId, indices) ==
    [g EXCEPT !.textures = [@ EXCEPT ![textureId] = indices]]

updatePaletteTexture(g, textureId, palette) ==
    [g EXCEPT !.textures = [@ EXCEPT ![textureId] =
        [k \in PalIdx |-> Color(palette[k].r, palette[k].g, palette[k].b, palette[k].a)]]]

\* The pass works on r = [buf, gl, upPix, upPal, drawn]: the buffer, the GL
\* context and what the pass has done so far.
PassStart(b, g) == [buf |-> b, gl |-> g, upPix |-> FALSE, upPal |-> FALSE, drawn |-> FALSE]

\* "Create GL textures if they don't exist"
glEnsureTextures(r) ==
    LET r1 == IF r.buf.glIndexTexture = 0
              THEN [r EXCEPT !.gl = createIndexedTexture(@, r.buf.width, r.buf.height),
                             !.buf.glIndexTexture = Len(r.gl.textures) + 1]
              ELSE r
    IN  IF r1.buf.glPaletteTexture = 0
        THEN [r1 EXCEPT !.gl = createPaletteTexture(@),
                        !.buf.glPaletteTexture = Len(r1.gl.textures) + 1]
        ELSE r1

\* (bug variant: the index plane is uploaded whenever anything is dirty)
glUploadPixelsIfDirty(r) ==
    IF r.buf.dirty
    THEN [r EXCEPT !.gl = updateIndexedTexture(@, r.buf.glIndexTexture, r.buf.pixels),
                   !.buf = markPixelsClean(@),
                   !.upPix = TRUE]
    ELSE r

\* "Upload pixel data if dirty"
glUploadPixels(r) ==
    IF r.buf.pixelsDirty
    THEN [r EXCEPT !.gl = updateIndexedTexture(@, r.buf.glIndexTexture, r.buf.pixels),
                   !.buf = markPixelsClean(@),
                   !.upPix = TRUE]
    ELSE r

\* (bug variant: the palette goes up only in a pass that uploads pixels)
glUploadPaletteWithPixels(r) ==
    IF r.buf.paletteDirty
    THEN IF r.upPix
         THEN [r EXCEPT !.gl = updatePaletteTexture(@, r.buf.glPaletteTexture, r.buf.palette),
                        !.buf = markPaletteClean(@),
                        !.upPal = TRUE]
         ELSE [r EXCEPT !.buf = markPaletteClean(@)]
    ELSE r

\* "Upload palette data if dirty"
glUploadPalette(r) ==
    IF r.buf.paletteDirty
    THEN [r EXCEPT !.gl = updatePaletteTexture(@, r.buf.glPaletteTexture, r.buf.palette),
                   !.buf = markPaletteClean(@),
                   !.upPal = TRUE]
    ELSE r

\* markClean() and the draw of the textured quad
glFinish(r) == [r EXCEPT !.buf = markClean(@), !.drawn = TRUE]

renderIndexedPixelBuffer(b, g) ==
    IF ~b.visible
    THEN PassStart(b, g)
    ELSE glFinish(glUploadPalette(glUploadPixels(glEnsureTextures(PassStart(b, g)))))

(* -------------------------------- Mesh3D ------------------------------ *)
\* Coordinates are integers, a Vec3 is <<x, y, z>> and a Vec2 <<x, y>>.  An
\* Euler angle is a number of quarter turns, for which sine and cosine are
\* exactly 0, 1 or -1.  A Polygon is [vertices, normals, color] with 0-based
\* indices, as in the code.
MediumOffset == 7
DarkOffset == 14
BrightPercent == 67
MediumPercent == 33

Cos4(q) == CASE q % 4 = 0 -> 1 [] q % 4 = 1 -> 0 [] q % 4 = 2 -> 0 - 1 [] OTHER -> 0
Sin4(q) == CASE q % 4 = 0 -> 0 [] q % 4 = 1 -> 1 [] q % 4 = 2 -> 0 [] OTHER -> 0 - 1

Sub3(a, b) == <<a[1] - b[1], a[2] - b[2], a[3] - b[3]>>
Cross3(a, b) == <<a[2] * b[3] - a[3] * b[2], a[3] * b[1] - a[1] * b[3], a[1] * b[2] - a[2] * b[1]>>
Dot3(a, b) == a[1] * b[1] + a[2] * b[2] + a[3] * b[3]

\* Vec3::normalize.  The unit vector v / sqrt(lenSq) is kept as the pair
\* [v, lenSq]; a vector no longer than 0.0001 (an integer vector: the zero
\* vector) is left as it is (lenSq = 1).
Normalize3(v) ==
    IF Dot3(v, v) > 0 THEN [v |-> v, lenSq |-> Dot3(v, v)] ELSE [v |-> v, lenSq |-> 1]

Polygon(verts, col) == [vertices |-> verts, normals |-> <<>>, color |-> col]
PolygonN(verts, norms, col) == [vertices |-> verts, normals |-> norms, color |-> col]

\* the rotation about X, then Y, then Z that both loops of renderToBuffer apply
RotateXYZ(v, rot) ==
    LET cosX == Cos4(rot[1])
        sinX == Sin4(rot[1])
        cosY == Cos4(rot[2])
        sinY == Sin4(rot[2])
        cosZ == Cos4(rot[3])
        sinZ == Sin4(rot[3])
        y1 == v[2] * cosX - v[3] * sinX
        z1 == v[2] * sinX + v[3] * cosX
        x2 == v[1] * cosY - z1 * sinY
        z2 == v[1] * sinY + z1 * cosY
        x3 == x2 * cosZ - y1 * sinZ
        y3 == x2 * sinZ + y1 * cosZ
    IN  <<x3, y3, z2>>

\* transformed[i] and transformedNormals[i] (i 0-based).  transformed has
\* one element per vertex; reading it at any other index is undefined
\* behaviour and yields m.beyond, whatever lies outside the array.
Transformed(m, i) ==
    IF i >= 0 /\ i < Len(m.vertices)
    THEN LET v == m.vertices[i + 1]
         IN  RotateXYZ(<<v[1] * m.scale, v[2] * m.scale, v[3] * m.scale>>, m.rotation)
    ELSE m.beyond

TransformedNormal(m, i) == Normalize3(RotateXYZ(m.normals[i + 1], m.rotation))

\* (bug variant: the pre-loaded normal is never used)
FaceNormalComputed(m, poly) ==
    LET v0 == Transformed(m, poly.vertices[1])
        v1 == Transformed(m, poly.vertices[2])
        v2 == Transformed(m, poly.vertices[3])
    IN  Normalize3(Cross3(Sub3(v1, v0), Sub3(v2, v0)))

\* "Calculate face normal"
FaceNormal(m, poly) ==
    IF poly.normals # <<>> /\ poly.normals[1] >= 0 /\ poly.normals[1] < Len(m.normals)
    THEN TransformedNormal(m, poly.normals[1])
    ELSE LET v0 == Transformed(m, poly.vertices[1])
             v1 == Transformed(m, poly.vertices[2])
             v2 == Transformed(m, poly.vertices[3])
         IN  Normalize3(Cross3(Sub3(v1, v0), Sub3(v2, v0)))

\* lightIntensity = normal.dot(viewDir) is IntensityNum(n) / sqrt(n.lenSq)
ViewDir == <<0, 0, 0 - 1>>
IntensityNum(n) == Dot3(n.v, ViewDir)

\* lightIntensity > percent / 100 (the clamp to [0,1] does not change it)
IntensityAbove(n, percent) ==
    /\ IntensityNum(n) > 0
    /\ IntensityNum(n) * IntensityNum(n) * 100 * 100 > percent * percent * n.lenSq

\* (bug variant: a face seen edge-on is not culled)
CulledStrict(m, n) == m.backFaceCulling /\ IntensityNum(n) < 0

Culled(m, n) == m.backFaceCulling /\ IntensityNum(n) <= 0

\* (bug variant: the medium band given to the brightest faces)
LitColorShifted(baseColor, n) ==
    IF IntensityAbove(n, BrightPercent) THEN (baseColor + MediumOffset) % 256
    ELSE IF IntensityAbove(n, MediumPercent) THEN (baseColor + MediumOffset) % 256
    ELSE (baseColor + DarkOffset) % 256

\* uint8_t litColor
LitColor(baseColor, n) ==
    IF IntensityAbove(n, BrightPercent) THEN baseColor
    ELSE IF IntensityAbove(n, MediumPercent) THEN (baseColor + MediumOffset) % 256
    ELSE (baseColor + DarkOffset) % 256

\* no sprite: what an expired anchoredSprite_ resolves to
NoSprite ==
    [alive |-> FALSE, position |-> <<0, 0>>, hasTexture |-> FALSE,
     width |-> 0, height |-> 0, scale |-> <<1, 1>>]

\* getAnchorPosition, in half pixels (Center divides the size by two);
\* sp = [alive, position, hasTexture, width, height, scale]
AnchorPositionTwice(sp, anchor) ==
    LET w == sp.width * sp.scale[1]
        h == sp.height * sp.scale[2]
        px == 2 * sp.position[1]
        py == 2 * sp.position[2]
    IN  IF ~sp.hasTexture THEN <<px, py>>
        ELSE CASE anchor = "TopLeft" -> <<px, py>>
               [] anchor = "TopRight" -> <<px + 2 * w, py>>
               [] anchor = "BottomLeft" -> <<px, py + 2 * h>>
               [] anchor = "BottomRight" -> <<px + 2 * w, py + 2 * h>>
               [] OTHER -> <<px + w, py + h>>

\* (bug variant: the sprite is read whether or not it still exists)
FinalPositionStale(m, sp) ==
    IF m.anchorMode = "Sprite" /\ m.anchored
    THEN LET a == AnchorPositionTwice(sp, m.spriteAnchor)
         IN  <<a[1] + 2 * m.anchorOffset[1], a[2] + 2 * m.anchorOffset[2]>>
    ELSE <<2 * m.position[1], 2 * m.position[2]>>

\* finalPosition, in half pixels
FinalPositionTwice(m, sp) ==
    IF m.anchorMode = "Sprite" /\ m.anchored /\ sp.alive
    THEN LET a == AnchorPositionTwice(sp, m.spriteAnchor)
         IN  <<a[1] + 2 * m.anchorOffset[1], a[2] + 2 * m.anchorOffset[2]>>
    ELSE <<2 * m.position[1], 2 * m.position[2]>>

\* the projected vertex: static_cast<int>(finalPosition + (p * focalLength) / z)
Projected(m, originTwice, i) ==
    LET p == Transformed(m, i)
        zz == p[3] + m.cameraDistance
        z == IF zz < 1 THEN 1 ELSE zz
    IN  <<Trunc(originTwice[1] * z + 2 * p[1] * m.focalLength, 2 * z),
          Trunc(originTwice[2] * z + 2 * p[2] * m.focalLength, 2 * z)>>

\* (bug variant: the wireframe outline is left open)
PolygonCallsOpen(m, sp, k) ==
    LET poly == m.polygons[k]
        n == Len(poly.vertices)
    IN  IF n < 3 THEN <<>>
        ELSE LET normal == FaceNormal(m, poly)
                 litColor == LitColor(poly.color, normal)
                 proj == [j \in 1..n |-> Projected(m, FinalPositionTwice(m, sp), poly.vertices[j])]
             IN  IF Culled(m, normal) THEN <<>>
                 ELSE IF m.renderMode = "Filled"
                      THEN [i \in 1..(n - 2) |->
                               [kind |-> "fillTriangle", poly |-> k, color |-> litColor,
                                pts |-> <<proj[1], proj[i + 1], proj[i + 2]>>]]
                      ELSE [i \in 1..(n - 1) |->
                               [kind |-> "drawLine", poly |-> k, color |-> litColor,
                                pts |-> <<proj[i], proj[(i % n) + 1]>>]]

\* the draw calls the loop body issues for polygon k (1-based position in
\* polygons_): the fan triangles in Filled mode, the edges in Wireframe mode
PolygonCalls(m, sp, k) ==
    LET poly == m.polygons[k]
        n == Len(poly.vertices)
    IN  IF n < 3 THEN <<>>
        ELSE LET normal == FaceNormal(m, poly)
                 litColor == LitColor(poly.color, normal)
                 proj == [j \in 1..n |-> Projected(m, FinalPositionTwice(m, sp), poly.vertices[j])]
             IN  IF Culled(m, normal) THEN <<>>
                 ELSE IF m.renderMode = "Filled"
                      THEN [i \in 1..(n - 2) |->
                               [kind |-> "fillTriangle", poly |-> k, color |-> litColor,
                                pts |-> <<proj[1], proj[i + 1], proj[i + 2]>>]]
                      ELSE [i \in 1..n |->
                               [kind |-> "drawLine", poly |-> k, color |-> litColor,
                                pts |-> <<proj[i], proj[(i % n) + 1]>>]]

\* (bug variant: a polygon of fewer than 3 vertices ends the loop)
RECURSIVE MeshCallsFromBreak(_, _, _)
MeshCallsFromBreak(m, sp, k) ==
    IF k > Len(m.polygons) \/ Len(m.polygons[k].vertices) < 3 THEN <<>>
    ELSE PolygonCalls(m, sp, k) \o MeshCallsFromBreak(m, sp, k + 1)

\* the calls of the whole polygon loop, in order
RECURSIVE MeshCallsFrom(_, _, _)
MeshCallsFrom(m, sp, k) ==
    IF k > Len(m.polygons) THEN <<>>
    ELSE PolygonCalls(m, sp, k) \o MeshCallsFrom(m, sp, k + 1)

MeshCalls(m, sp) ==
    IF ~m.visible \/ m.vertices = <<>> \/ m.polygons = <<>>
    THEN <<>>
    ELSE MeshCallsFrom(m, sp, 1)

\* one fillTriangle or drawLine call
ApplyCall(b, c) ==
    IF c.kind = "fillTriangle"
    THEN fillTriangle(b, c.pts[1][1], c.pts[1][2], c.pts[2][1], c.pts[2][2],
                      c.pts[3][1], c.pts[3][2], c.color)
    ELSE drawLine(b, c.pts[1][1], c.pts[1][2], c.pts[2][1], c.pts[2][2], c.color)

\* the calls applied in order
RECURSIVE ApplyCalls(_, _, _)
ApplyCalls(b, calls, k) ==
    IF k > Len(calls) THEN b
    ELSE Then(ApplyCall(b, calls[k]), LAMBDA nb : ApplyCalls(nb, calls, k + 1))

\* the calls are computed once and then applied
renderToBuffer(m, sp, b) == Then(MeshCalls(m, sp), LAMBDA cs : ApplyCalls(b, cs, 1))

\* a mesh as its default member initialisers leave it, with the buffer
\* size its constructor was given; buffer_ is the variable buf when
\* hasBuffer, and null otherwise
NewMesh(w, h) ==
    [vertices |-> <<>>, normals |-> <<>>, polygons |-> <<>>,
     position |-> <<0, 0>>, rotation |-> <<0, 0, 0>>, scale |-> 1,
     autoRotation |-> <<0, 0, 0>>,
     focalLength |-> 1039, cameraDistance |-> 200,
     visible |-> TRUE, backFaceCulling |-> TRUE, renderMode |-> "Filled",
     anchorMode |-> "Viewport", anchored |-> FALSE, spriteAnchor |-> "Center",
     anchorOffset |-> <<0, 0>>,
     bufferWidth |-> w, bufferHeight |-> h, hasBuffer |-> TRUE,
     beyond |-> <<0, 0, 0>>]

\* addVertex, addNormal, addPolygon: push_back, nothing is validated
addVertex(m, vertex) == [m EXCEPT !.vertices = Append(@, vertex)]
addNormal(m, normal) == [m EXCEPT !.normals = Append(@, normal)]
addPolygon(m, polygon) == [m EXCEPT !.polygons = Append(@, polygon)]

\* Mesh3D::clear
clearGeometry(m) == [m EXCEPT !.vertices = <<>>, !.normals = <<>>, !.polygons = <<>>]

\* renderToBuffer reads transformed[] at an index that is not one of its
\* elements: one of the three vertices of a computed normal, or any vertex of
\* a polygon that is projected
ReadsOutside(m) ==
    /\ m.visible /\ m.vertices # <<>> /\ m.polygons # <<>>
    /\ \E k \in 1..Len(m.polygons) :
          LET poly == m.polygons[k]
              Outside(j) == poly.vertices[j] < 0 \/ poly.vertices[j] >= Len(m.vertices)
              computed == ~(poly.normals # <<>> /\ poly.normals[1] >= 0
                            /\ poly.normals[1] < Len(m.normals))
          IN  /\ Len(poly.vertices) >= 3
              /\ \/ computed /\ \E j \in 1..3 : Outside(j)
                 \/ ~Culled(m, FaceNormal(m, poly)) /\ \E j \in 1..Len(poly.vertices) : Outside(j)

\* the geometry createCube and createPyramid add (s = size / 2)
CubeVertices(s) ==
    <<<<0 - s, 0 - s, 0 - s>>, <<s, 0 - s, 0 - s>>, <<s, s, 0 - s>>, <<0 - s, s, 0 - s>>,
      <<0 - s, 0 - s, s>>, <<s, 0 - s, s>>, <<s, s, s>>, <<0 - s, s, s>>>>

CubePolygons ==
    <<Polygon(<<0, 1, 2, 3>>, 1), Polygon(<<5, 4, 7, 6>>, 2), Polygon(<<4, 0, 3, 7>>, 3),
      Polygon(<<1, 5, 6, 2>>, 4), Polygon(<<3, 2, 6, 7>>, 5), Polygon(<<4, 5, 1, 0>>, 6)>>

PyramidVertices(s) ==
    <<<<0 - s, 0 - s, 0 - s>>, <<s, 0 - s, 0 - s>>, <<s, 0 - s, s>>, <<0 - s, 0 - s, s>>,
      <<0, s, 0>>>>

PyramidPolygons ==
    <<Polygon(<<0, 1, 2, 3>>, 1), Polygon(<<0, 4, 1>>, 2), Polygon(<<1, 4, 2>>, 3),
      Polygon(<<2, 4, 3>>, 4), Polygon(<<3, 4, 0>>, 5)>>

\* createCube and createPyramid with an even size: a default-constructed
\* mesh (buffer size 0 x 0, "use the viewport size") with the geometry added
createCube(size) ==
    [NewMesh(0, 0) EXCEPT !.vertices = CubeVertices(size \div 2), !.polygons = CubePolygons]
createPyramid(size) ==
    [NewMesh(0, 0) EXCEPT !.vertices = PyramidVertices(size \div 2), !.polygons = PyramidPolygons]

\* sin and cos, in thousandths, of an angle of d degrees, d a multiple of 15
SinMilli(d) ==
    LET a == d % 360
        q == IF a <= 90 THEN a ELSE IF a <= 180 THEN 180 - a
             ELSE IF a <= 270 THEN a - 180 ELSE 360 - a
        v == CASE q = 0 -> 0 [] q = 15 -> 259 [] q = 30 -> 500 [] q = 45 -> 707
               [] q = 60 -> 866 [] q = 75 -> 966 [] OTHER -> 1000
    IN  IF a <= 180 THEN v ELSE 0 - v
CosMilli(d) == SinMilli(d + 90)

\* the vertex of createSphere at (lat, lon), its coordinates cut to whole
\* units: theta = lat * pi / segments, phi = lon * 2 pi / segments
SphereVertex(radius, segments, lat, lon) ==
    LET theta == (lat * 180) \div segments
        phi == (lon * 360) \div segments
    IN  <<Trunc(CosMilli(phi) * SinMilli(theta) * radius, 1000000),
          Trunc(CosMilli(theta) * radius, 1000),
          Trunc(SinMilli(phi) * SinMilli(theta) * radius, 1000000)>>

\* "Create vertices": for lat <= segments, for lon <= segments, addVertex
RECURSIVE SphereVertices(_, _, _, _)
SphereVertices(radius, segments, lat, lon) ==
    IF lat > segments THEN <<>>
    ELSE IF lon > segments THEN SphereVertices(radius, segments, lat + 1, 0)
    ELSE <<SphereVertex(radius, segments, lat, lon)>>
           \o SphereVertices(radius, segments, lat, lon + 1)

\* the two triangles of the quad at (lat, lon)
SphereQuad(segments, lat, lon) ==
    LET first == (lat * (segments + 1)) + lon
        second == first + segments + 1
        color == (1 + ((lat + lon) % 6)) % 256
    IN  <<Polygon(<<first, second, first + 1>>, color),
          Polygon(<<second, second + 1, first + 1>>, color)>>

\* (bug variant: the polygon loops run to lon = segments)
RECURSIVE SpherePolygonsSeam(_, _, _)
SpherePolygonsSeam(segments, lat, lon) ==
    IF lat >= segments THEN <<>>
    ELSE IF lon > segments THEN SpherePolygonsSeam(segments, lat + 1, 0)
    ELSE SphereQuad(segments, lat, lon) \o SpherePolygonsSeam(segments, lat, lon + 1)

\* "Create polygons": for lat < segments, for lon < segments, two addPolygon
RECURSIVE SpherePolygons(_, _, _)
SpherePolygons(segments, lat, lon) ==
    IF lat >= segments THEN <<>>
    ELSE IF lon >= segments THEN SpherePolygons(segments, lat + 1, 0)
    ELSE SphereQuad(segments, lat, lon) \o SpherePolygons(segments, lat, lon + 1)

createSphere(radius, segments) ==
    [NewMesh(0, 0) EXCEPT !.vertices = SphereVertices(radius, segments, 0, 0),
                          !.polygons = SpherePolygons(segments, 0, 0)]

\* setBufferSize: buffer_.reset()
setBufferSize(m, w, h) == [m EXCEPT !.bufferWidth = w, !.bufferHeight = h, !.hasBuffer = FALSE]

\* ensureBuffer: the mesh and its buffer afterwards, as [mesh, buf]
ensureBuffer(m, b, vp) ==
    LET width == IF m.bufferWidth = 0 THEN vp[1] ELSE m.bufferWidth
        height == IF m.bufferHeight = 0 THEN vp[2] ELSE m.bufferHeight
    IN  IF ~m.hasBuffer \/ b.width # width \/ b.height # height
        THEN [mesh |-> [m EXCEPT !.hasBuffer = TRUE],
              buf |-> IF m.hasBuffer
                      THEN setPalette(NewBuffer(width, height), b.palette)
                      ELSE NewBuffer(width, height)]
        ELSE [mesh |-> m, buf |-> b]

\* Mesh3D::render with a GLRenderer: [mesh, buf, calls, pass]
render(m, sp, b, g, vp) ==
    IF ~m.visible
    THEN [mesh |-> m, buf |-> b, calls |-> <<>>, pass |-> PassStart(b, g)]
    ELSE LET e == ensureBuffer(m, b, vp)
             cleared == clear(e.buf, 0)
         IN  Then(renderToBuffer(e.mesh, sp, cleared),
                  LAMBDA drawn : [mesh |-> e.mesh, buf |-> drawn,
                                  calls |-> MeshCalls(e.mesh, sp),
                                  pass |-> renderIndexedPixelBuffer(drawn, g)])

(* ------------------------------ SDLRenderer --------------------------- *)
\* the word updateTexture writes for a color, (r << 24) | (g << 16) |
\* (b << 8) | a, as its four bytes from the most significant down
Rgba32(c) == <<c.r, c.g, c.b, c.a>>

\* rgbaPixels of upload as updateTexture writes them
RgbaPixels(b) == [k \in 1..(b.width * b.height) |-> Rgba32(b.palette[b.pixels[k]])]

\* IndexedPixelBuffer::upload with the SDLRenderer; SDL_CreateTexture and
\* SDL_LockTexture are taken to succeed
upload(b) ==
    IF ~b.dirty THEN b
    ELSE [b EXCEPT !.texture = <<RgbaPixels(b)>>, !.dirty = FALSE]

\* SDLRenderer::renderIndexedPixelBuffer: [buf, drawn]
sdlRenderIndexedPixelBuffer(b) ==
    IF ~b.visible \/ b.texture = <<>>
    THEN [buf |-> b, drawn |-> FALSE]
    ELSE [buf |-> upload(b), drawn |-> TRUE]

\* Mesh3D::render with the SDLRenderer: [mesh, buf, calls, drawn]
renderSDL(m, sp, b, vp) ==
    IF ~m.visible
    THEN [mesh |-> m, buf |-> b, calls |-> <<>>, drawn |-> FALSE]
    ELSE LET e == ensureBuffer(m, b, vp)
             cleared == clear(e.buf, 0)
         IN  Then(renderToBuffer(e.mesh, sp, cleared),
                  LAMBDA drawn : [mesh |-> e.mesh,
                                  buf |-> sdlRenderIndexedPixelBuffer(drawn).buf,
                                  calls |-> MeshCalls(e.mesh, sp),
                                  drawn |-> sdlRenderIndexedPixelBuffer(drawn).drawn])

(* --------------------------- the state machine ------------------------ *)
\* buf     the IndexedPixelBuffer
\* gl      the GL context of the GLRenderer
\* last    the last operation called: its name, arguments and result
\* since   the kinds of mutation since the last upload pass ("start" until
\*         the first one)
\* budget  the number of calls still to be made
\* mesh    the Mesh3D that owns the buffer (buf is *buffer_ while
\*         mesh.hasBuffer; getBuffer() hands it out for direct drawing)
\* sprite  the sprite a mesh can be anchored to
\* viewport  the renderer's viewport size <<width, height>>
\* calls   the fillTriangle / drawLine calls of the last Mesh3D::render
\* load    the loadFromFile call in progress: where it stands, the decoded
\*         image and the boxes of the split loop; or the drawLine call in
\*         progress: its locals and the number of points visited so far
VARIABLES buf, gl, last, since, budget, mesh, sprite, viewport, calls, load

vars == <<buf, gl, last, since, budget, mesh, sprite, viewport, calls, load>>
meshVars == <<mesh, sprite, viewport, calls>>

\* no loadFromFile call has been made
NoLoad == [pc |-> "idle", colors |-> <<>>, width |-> 0, dest |-> <<0, 0>>, boxes |-> <<>>]

\* what the last operation was and returned
Did(name, args, ret) ==
    [op |-> name, args |-> args, ret |-> ret, upPix |-> FALSE, upPal |-> FALSE]

Begin(b) == [b EXCEPT !.touched = {}]

\* a call of a pixel operation: the buffer it leaves, the record of the call
PixelOp(b, rec) ==
    /\ budget' = budget - 1
    /\ buf' = b
    /\ last' = rec
    /\ since' = since \cup {"pix"}
    /\ UNCHANGED <<gl, meshVars, load>>

\* a call of a palette operation; rec.ret = 1 when it was given a palette
PaletteOp(b, rec) ==
    /\ budget' = budget - 1
    /\ buf' = b
    /\ last' = rec
    /\ since' = IF rec.ret = 1 THEN since \cup {"pal"} ELSE since
    /\ UNCHANGED <<gl, meshVars, load>>

SetPixel(P, I) ==
    /\ budget > 0
    /\ \E p \in P, i \in I :
        PixelOp(setPixel(Begin(buf), p[1], p[2], i), Did("setPixel", <<p[1], p[2], i>>, 0))

GetPixel(P) ==
    /\ budget > 0
    /\ \E p \in P :
        /\ budget' = budget - 1
        /\ buf' = Begin(buf)
        /\ last' = Did("getPixel", <<p[1], p[2]>>, getPixel(buf, p[1], p[2]))
        /\ UNCHANGED <<gl, since, meshVars, load>>

DrawLine(L, I) ==
    /\ budget > 0
    /\ \E l \in L, i \in I :
        PixelOp(drawLine(Begin(buf), l[1][1], l[1][2], l[2][1], l[2][2], i),
                Did("drawLine", <<l[1][1], l[1][2], l[2][1], l[2][2], i>>, 0))

FillTriangle(T, I) ==
    /\ budget > 0
    /\ \E t \in T, i \in I :
        PixelOp(fillTriangle(Begin(buf), t[1][1], t[1][2], t[2][1], t[2][2], t[3][1], t[3][2], i),
                Did("fillTriangle", <<t[1][1], t[1][2], t[2][1], t[2][2], t[3][1], t[3][2], i>>, 0))

FillRect(R, I) ==
    /\ budget > 0
    /\ \E r \in R, i \in I :
        PixelOp(fillRect(Begin(buf), r[1], r[2], r[3], r[4], i), Did("fillRect", <<r[1], r[2], r[3], r[4], i>>, 0))

Clear(I) ==
    /\ budget > 0
    /\ \E i \in I : PixelOp(clear(Begin(buf), i), Did("clear", <<i>>, 0))

Fill(I) ==
    /\ budget > 0
    /\ \E i \in I : PixelOp(fill(Begin(buf), i), Did("fill", <<i>>, 0))

SetPaletteEntry(K, C) ==
    /\ budget > 0
    /\ \E k \in K, c \in C :
        PaletteOp(setPaletteEntry(Begin(buf), k, c), Did("setPaletteEntry", <<k, c.r, c.g, c.b, c.a>>, 1))

SetPalette(PS) ==
    /\ budget > 0
    /\ \E pal \in PS :
        PaletteOp(setPalette(Begin(buf), pal), Did("setPalette", PaletteBytes(pal), 1))

SetPalettePtr(PS) ==
    /\ budget > 0
    /\ \E p \in {NullPtr} \cup {PtrTo(pal) : pal \in PS} :
        PaletteOp(setPalettePtr(Begin(buf), p),
                  Did("setPalettePtr", IF p = NullPtr THEN <<>> ELSE PaletteBytes(p[1]),
                      IF p = NullPtr THEN 0 ELSE 1))

LoadPalette(PS) ==
    /\ budget > 0
    /\ \E p \in {NullPtr} \cup {PtrTo(pal) : pal \in PS} :
        PaletteOp(loadPalette(Begin(buf), p),
                  Did("loadPalette", <<>>, IF p = NullPtr THEN 0 ELSE 1))

SetVisible ==
    /\ budget > 0
    /\ budget' = budget - 1
    /\ \E v \in BOOLEAN :
          /\ buf' = [Begin(buf) EXCEPT !.visible = v]
          /\ last' = Did("setVisible", <<v>>, 0)
    /\ UNCHANGED <<gl, since, meshVars, load>>

\* one GLRenderer::renderIndexedPixelBuffer pass over the buffer
GLRender ==
    /\ budget > 0
    /\ budget' = budget - 1
    /\ \E r \in {renderIndexedPixelBuffer(Begin(buf), gl)} :
           /\ buf' = r.buf
           /\ gl' = r.gl
           /\ last' = [Did("glRender", <<>>, IF r.drawn THEN 1 ELSE 0)
                          EXCEPT !.upPix = r.upPix, !.upPal = r.upPal]
           /\ since' = IF r.drawn THEN {} ELSE since
    /\ UNCHANGED <<meshVars, load>>

\* a call of a Mesh3D setter: the mesh it leaves
MeshOp(m, rec) ==
    /\ budget' = budget - 1
    /\ mesh' = m
    /\ last' = rec
    /\ UNCHANGED <<gl, since, sprite, viewport, calls, load>>

SetRotation(RS) ==
    /\ budget > 0
    /\ \E r \in RS :
        /\ MeshOp([mesh EXCEPT !.rotation = r], Did("setRotation", r, 0))
        /\ buf' = Begin(buf)

\* Mesh3D::update with deltaTime = 1 (angles are counted in quarter turns)
Update ==
    /\ budget > 0
    /\ MeshOp([mesh EXCEPT !.rotation = [a \in 1..3 |-> (@[a] + mesh.autoRotation[a]) % 4]],
              Did("update", <<1>>, 0))
    /\ buf' = Begin(buf)

SetMeshVisible ==
    /\ budget > 0
    /\ \E v \in BOOLEAN :
        /\ MeshOp([mesh EXCEPT !.visible = v], Did("setMeshVisible", <<v>>, 0))
        /\ buf' = Begin(buf)

SetBackFaceCulling ==
    /\ budget > 0
    /\ \E v \in BOOLEAN :
        /\ MeshOp([mesh EXCEPT !.backFaceCulling = v], Did("setBackFaceCulling", <<v>>, 0))
        /\ buf' = Begin(buf)

SetRenderMode ==
    /\ budget > 0
    /\ \E md \in {"Filled", "Wireframe"} :
        /\ MeshOp([mesh EXCEPT !.renderMode = md], Did("setRenderMode", <<IF md = "Filled" THEN 0 ELSE 1>>, 0))
        /\ buf' = Begin(buf)

\* the buffer the variable buf holds while buffer_ is null
NoBuffer == NewBuffer(0, 0)

SetBufferSize(D) ==
    /\ budget > 0
    /\ \E d \in D :
        /\ MeshOp(setBufferSize(mesh, d[1], d[2]), Did("setBufferSize", d, 0))
        /\ buf' = NoBuffer

\* the number of pixels that are not the background index
NonZero(b) == Cardinality({k \in 1..Len(b.pixels) : b.pixels[k] # 0})

\* Mesh3D::render(renderer, layerOffset, opacity) with the GLRenderer; the
\* record of the call keeps how many pixels were set before it
Render ==
    /\ budget > 0
    /\ budget' = budget - 1
    /\ \E r \in {render(mesh, sprite, Begin(buf), gl, viewport)} :
           /\ mesh' = r.mesh
           /\ buf' = r.pass.buf
           /\ gl' = r.pass.gl
           /\ calls' = r.calls
           /\ last' = [Did("render", <<NonZero(buf)>>, IF r.pass.drawn THEN 1 ELSE 0)
                          EXCEPT !.upPix = r.pass.upPix, !.upPal = r.pass.upPal]
           /\ since' = IF r.pass.drawn THEN {} ELSE since
    /\ UNCHANGED <<sprite, viewport, load>>

AddVertex(VS) ==
    /\ budget > 0
    /\ \E v \in VS :
        /\ MeshOp(addVertex(mesh, v), Did("addVertex", v, 0))
        /\ buf' = Begin(buf)

AddNormal(NS) ==
    /\ budget > 0
    /\ \E n \in NS :
        /\ MeshOp(addNormal(mesh, n), Did("addNormal", n, 0))
        /\ buf' = Begin(buf)

AddPolygon(PS) ==
    /\ budget > 0
    /\ \E poly \in PS :
        /\ MeshOp(addPolygon(mesh, poly), Did("addPolygon", poly.vertices, 0))
        /\ buf' = Begin(buf)

ClearGeometry ==
    /\ budget > 0
    /\ MeshOp(clearGeometry(mesh), Did("clearGeometry", <<>>, 0))
    /\ buf' = Begin(buf)

\* Mesh3D::renderToBuffer(buffer) called on the buffer.  When it reads
\* outside transformed[] the read yields any of the vectors WS, or the
\* program faults there and makes no further call.  The record of the call
\* keeps 0 (all reads inside), 1 (a read outside) or 2 (faulted).
RenderToBuffer(WS) ==
    /\ budget > 0
    /\ \E w \in WS, faults \in BOOLEAN :
        LET m == [mesh EXCEPT !.beyond = w]
        IN  IF ReadsOutside(m) /\ faults
            THEN /\ budget' = 0
                 /\ buf' = Begin(buf)
                 /\ last' = Did("renderToBuffer", <<>>, 2)
                 /\ UNCHANGED <<calls, since>>
            ELSE /\ budget' = budget - 1
                 /\ \E cs \in {MeshCalls(m, sprite)} :
                       /\ calls' = cs
                       /\ buf' = ApplyCalls(Begin(buf), cs, 1)
                       /\ since' = IF cs = <<>> THEN since ELSE since \cup {"pix"}
                 /\ last' = Did("renderToBuffer", <<>>, IF ReadsOutside(m) THEN 1 ELSE 0)
    /\ UNCHANGED <<gl, mesh, sprite, viewport, load>>

(* ----------------- sequences of calls and upload passes --------------- *)
\* arguments: for each operation a call that writes and calls that do not
Indices == {0, 7, 255}
Colors == {Color(255, 0, 0, 255), Color(0, 0, 255, 128)}
Palettes == {GrayPalette, [k \in PalIdx |-> Color(255 - k, k, 0, (3 * k) % 256)]}

SeqPoints == {<<0, 0>>, <<BufW - 1, BufH - 1>>, <<0 - Margin, 0>>, <<0, BufH - 1 + Margin>>}
SeqLines == {<<<<0, 0>>, <<BufW - 1, BufH - 1>>>>,
             <<<<0 - Margin, 0 - Margin>>, <<0 - Margin, 0>>>>}
SeqTriangles == {<<<<0, 0>>, <<BufW - 1, 0>>, <<0, BufH - 1>>>>,
                 <<<<0, 0>>, <<1, 0>>, <<BufW - 1, 0>>>>,
                 <<<<0 - Margin, BufH>>, <<0 - Margin, BufH + Margin>>, <<0, BufH + Margin>>>>}
SeqRects == {<<0, 0, BufW - 1, 1>>, <<1, 1, 0, 0>>, <<BufW, 0, Margin, Margin>>}

Init ==
    /\ buf = NewBuffer(BufW, BufH)
    /\ gl = NewGL
    /\ last = Did("new", <<>>, 0)
    /\ since = {"start"}
    /\ budget = MaxSteps
    /\ mesh = NewMesh(BufW, BufH)
    /\ sprite = NoSprite
    /\ viewport = <<BufW, BufH>>
    /\ calls = <<>>
    /\ load = NoLoad

Next ==
    \/ SetPixel(SeqPoints, {7})
    \/ GetPixel({<<0, 0>>})
    \/ DrawLine(SeqLines, {7})
    \/ FillTriangle(SeqTriangles, {7})
    \/ FillRect(SeqRects, {7})
    \/ Clear({0, 7})
    \/ Fill({255})
    \/ SetPaletteEntry({3}, Colors)
    \/ SetPalette(Palettes)
    \/ SetPalettePtr({GrayPalette})
    \/ LoadPalette({GrayPalette})
    \/ SetVisible
    \/ GLRender

Spec == Init /\ [][Next]_vars

(* ------------- one call, any arguments, on some buffer state ---------- *)
Xs == (0 - Margin)..(BufW - 1 + Margin)
Ys == (0 - Margin)..(BufH - 1 + Margin)
Points == Xs \X Ys
FarPoints == Points \cup ({IntMin, IntMax} \X {IntMin, 0, IntMax})
                    \cup ({0} \X {IntMin, IntMax})
Dims == ((0 - 1)..(BufW + Margin)) \cup {IntMax}
Rects == (Xs \cup {IntMax}) \X (Ys \cup {IntMax}) \X Dims \X Dims

\* the buffers a call is made on: a new one, and ones that were drawn on
\* and then uploaded (both flags false)
Uploaded(b) == renderIndexedPixelBuffer(b, NewGL)
StartBuffers ==
    {PassStart(NewBuffer(BufW, BufH), NewGL),
     Uploaded(clear(NewBuffer(BufW, BufH), 9)),
     Uploaded(setPixel(drawLine(NewBuffer(BufW, BufH), 0, 0, BufW - 1, BufH - 1, 5),
                       BufW - 1, 0, 3))}

InitCall ==
    /\ \E s \in StartBuffers : buf = Begin(s.buf) /\ gl = s.gl
    /\ last = Did("new", <<>>, 0)
    /\ since = {"start"}
    /\ budget = 1
    /\ mesh = NewMesh(BufW, BufH)
    /\ sprite = NoSprite
    /\ viewport = <<BufW, BufH>>
    /\ calls = <<>>
    /\ load = NoLoad

NextCall ==
    \/ SetPixel(FarPoints, Indices)
    \/ GetPixel(FarPoints)
    \/ DrawLine(Points \X Points, {7})
    \/ FillTriangle(Points \X Points \X Points, {7})
    \/ FillRect(Rects, {7})
    \/ Clear(Indices)
    \/ Fill(Indices)
    \/ SetPaletteEntry({0, 3, 255}, Colors)
    \/ SetPalette(Palettes)
    \/ SetPalettePtr(Palettes)
    \/ LoadPalette(Palettes)

SpecCall == InitCall /\ [][NextCall]_vars

(* ------------------- frames of a mesh: Mesh3D::render ----------------- *)
MeshW == 5
MeshH == 5
CubeHalf == 1
FocalLen == 4
CameraDist == 3
MeshSteps == 2

\* setPosition (the middle of the buffer), setFocalLength, setCameraDistance
Placed(m) ==
    [m EXCEPT !.position = <<MeshW \div 2, MeshH \div 2>>,
              !.focalLength = FocalLen, !.cameraDistance = CameraDist,
              !.autoRotation = <<1, 0, 0>>]

\* a mesh put together with addVertex, addNormal and addPolygon on
\* Mesh3D(MeshW, MeshH): a pentagon, triangles and a quad in the plane z = 0
\* with vertex normals of several inclinations, a two-vertex polygon, and a
\* polygon whose normal index is not in normals_
FanMesh ==
    [NewMesh(MeshW, MeshH) EXCEPT
        !.vertices = <<<<0 - 1, 0 - 1, 0>>, <<1, 0 - 1, 0>>, <<1, 0, 0>>, <<0, 1, 0>>, <<0 - 1, 1, 0>>>>,
        !.normals = <<<<3, 0, 0 - 1>>, <<1, 1, 0 - 1>>, <<0, 0, 1>>, <<0, 0, 0>>>>,
        !.polygons = <<PolygonN(<<0, 1, 2, 3, 4>>, <<0>>, 3),
                       PolygonN(<<0, 1, 2>>, <<1>>, 7),
                       PolygonN(<<0, 1, 3, 4>>, <<2>>, 1),
                       PolygonN(<<4, 3, 2>>, <<9>>, 5),
                       Polygon(<<0, 1>>, 2),
                       PolygonN(<<2, 3, 4>>, <<3>>, 6)>>]

Rotations == (0..3) \X (0..3) \X (0..1)
SomeRotations == {<<0, 0, 0>>, <<0, 1, 0>>, <<1, 2, 3>>}

\* the meshes of the program, as [mesh, buf]: the hand-built one, and a
\* cube and a pyramid from the factories given a buffer size
StartMeshes ==
    {[mesh |-> Placed(FanMesh), buf |-> NewBuffer(MeshW, MeshH)],
     [mesh |-> setBufferSize(Placed(createCube(2 * CubeHalf)), MeshW, MeshH), buf |-> NoBuffer],
     [mesh |-> setBufferSize(Placed(createPyramid(2 * CubeHalf)), MeshW, MeshH), buf |-> NoBuffer]}

\* The program is about to render a frame of a mesh at some rotation:
\* either its first frame, or a frame after one that was rendered with
\* culling switched off.
InitMesh ==
    /\ sprite = NoSprite
    /\ viewport = <<MeshW + 1, MeshH>>
    /\ budget = MeshSteps
    /\ load = NoLoad
    /\ \E s \in StartMeshes, r \in Rotations :
        \/ /\ mesh = [s.mesh EXCEPT !.rotation = r]
           /\ buf = s.buf
           /\ gl = NewGL
           /\ calls = <<>>
           /\ last = Did("new", <<>>, 0)
           /\ since = {"start"}
        \/ \E f \in {render([s.mesh EXCEPT !.rotation = r, !.backFaceCulling = FALSE],
                             sprite, s.buf, NewGL, viewport)} :
               /\ mesh = [f.mesh EXCEPT !.backFaceCulling = TRUE]
               /\ buf = Begin(f.pass.buf)
               /\ gl = f.pass.gl
               /\ calls = f.calls
               /\ last = Did("setBackFaceCulling", <<TRUE>>, 0)
               /\ since = {}

NextMesh ==
    \/ Render
    \/ SetRotation(SomeRotations)
    \/ Update
    \/ SetMeshVisible
    \/ SetBackFaceCulling
    \/ SetRenderMode
    \/ SetBufferSize({<<MeshW, MeshH>>, <<0, MeshH>>})
    \/ (mesh.hasBuffer /\ Fill({9}))
    \/ (mesh.hasBuffer /\ SetPalette({[k \in PalIdx |-> Color(255 - k, k, 0, 255)]}))

SpecMesh == InitMesh /\ [][NextMesh]_vars

(* --------------------------- loading an image ------------------------- *)
\* loadFromFile(imagePath, destX, destY, fitPalette) up to its split loop:
\* the file does not load (return false), or its pixels are collected and,
\* with fitPalette and more than one pixel, put in the first box
LoadBegin(IS, DS) ==
    /\ budget > 0
    /\ load.pc \in {"idle", "done"}
    /\ budget' = budget - 1
    /\ buf' = Begin(buf)
    /\ \/ /\ load' = [NoLoad EXCEPT !.pc = "done"]
          /\ last' = Did("loadFromFile", <<>>, 0)
       \/ \E img \in IS, d \in DS, fitPalette \in BOOLEAN :
            /\ load' = [pc |-> IF fitPalette /\ Len(img.colors) > 1 THEN "split" ELSE "map",
                        colors |-> img.colors, width |-> img.width, dest |-> d,
                        boxes |-> IF fitPalette /\ Len(img.colors) > 1
                                  THEN <<BagOf(img.colors)>> ELSE <<>>]
            /\ last' = Did("loadFromFile", d, 2)
    /\ UNCHANGED <<gl, since, meshVars>>

\* one iteration of while (boxes.size() < 256) that does not break
LoadSplit ==
    /\ load.pc = "split"
    /\ Len(load.boxes) < PaletteSize
    /\ \E largestIdx \in {LargestIdx(load.boxes)} :
        /\ largestIdx # 0
        /\ \E h \in Halves(load.boxes[largestIdx]) :
              load' = [load EXCEPT !.boxes = Append([@ EXCEPT ![largestIdx] = h[1]], h[2])]
    /\ UNCHANGED <<buf, gl, last, since, budget, meshVars>>

\* the loop is left (256 boxes, or no box with a range) or was not entered:
\* the palette is generated and set, the pixels are mapped and stored, the
\* pixels are marked dirty, true is returned
LoadFinish ==
    /\ \/ load.pc = "map"
       \/ /\ load.pc = "split"
          /\ Len(load.boxes) >= PaletteSize \/ LargestIdx(load.boxes) = 0
    /\ \E newPalette \in {IF load.pc = "split" THEN BoxPalette(load.boxes) ELSE buf.palette} :
        buf' = markPixelsDirty(Blit(IF load.pc = "split" THEN setPalette(buf, newPalette) ELSE buf,
                                    load.colors, load.width, load.dest, newPalette))
    /\ load' = [load EXCEPT !.pc = "done"]
    /\ last' = Did("loadFromFile", load.dest, 1)
    /\ since' = since \cup (IF load.pc = "split" THEN {"pix", "pal"} ELSE {"pix"})
    /\ UNCHANGED <<gl, budget, meshVars>>

MaxPixels == 3

\* images of up to MaxPixels pixels in one row, of colours that differ in one
\* channel, in alpha only, or in two channels; a 2 x 2 image; and two images
\* with a pixel per palette slot or one more: a ramp of 256 colours, and the
\* ramp with one of its colours a second time
FewColors == {Color(0, 0, 0, 255), Color(2, 0, 0, 255), Color(2, 0, 0, 0), Color(0, 3, 0, 255)}
Ramp(n) == [k \in 1..n |-> Color((k - 1) % 256, (k - 1) \div 256, 0, 255)]
SmallImages ==
    {[colors |-> cs, width |-> Len(cs)] :
        cs \in UNION {[1..n -> FewColors] : n \in 1..MaxPixels}}
    \cup {[colors |-> <<Color(0, 0, 0, 255), Color(2, 0, 0, 255),
                        Color(0, 3, 0, 255), Color(2, 0, 0, 255)>>, width |-> 2]}
BigImages ==
         {[colors |-> Ramp(PaletteSize), width |-> PaletteSize],
          [colors |-> Append(Ramp(PaletteSize), Color(PaletteSize \div 2 - 1, 0, 0, 255)),
           width |-> PaletteSize + 1]}

InitLoad ==
    /\ buf \in {NewBuffer(BufW, BufH),
                 setPalette(NewBuffer(BufW, BufH), [k \in PalIdx |-> Color(127 - k \div 2, 0, 0, 255)])}
    /\ gl = NewGL
    /\ last = Did("new", <<>>, 0)
    /\ since = {"start"}
    /\ budget = 1
    /\ mesh = NewMesh(BufW, BufH)
    /\ sprite = NoSprite
    /\ viewport = <<BufW, BufH>>
    /\ calls = <<>>
    /\ load = NoLoad

NextLoad ==
    \/ LoadBegin(SmallImages, {<<0, 0>>, <<0 - 1, 1>>})
    \/ LoadBegin(BigImages, {<<0, 0>>})
    \/ LoadSplit
    \/ LoadFinish

SpecLoad == InitLoad /\ [][NextLoad]_vars

\* a call that has begun runs on: the loop takes its next iteration, the
\* call finishes
FairLoad == SpecLoad /\ WF_vars(LoadSplit) /\ WF_vars(LoadFinish)

(* ------------------------- anchoring to a sprite ---------------------- *)
\* anchorToSprite with a pointer to the sprite, which exists
AnchorToSprite(AS, OS) ==
    /\ budget > 0
    /\ sprite.alive
    /\ \E a \in AS, o \in OS :
        /\ MeshOp([mesh EXCEPT !.anchored = TRUE, !.spriteAnchor = a,
                                !.anchorOffset = o, !.anchorMode = "Sprite"],
                  Did("anchorToSprite", o, 0))
        /\ buf' = Begin(buf)

ClearSpriteAnchor ==
    /\ budget > 0
    /\ MeshOp([mesh EXCEPT !.anchored = FALSE, !.anchorMode = "Viewport",
                            !.anchorOffset = <<0, 0>>],
              Did("clearSpriteAnchor", <<>>, 0))
    /\ buf' = Begin(buf)

SetAnchorMode ==
    /\ budget > 0
    /\ \E md \in {"Viewport", "Sprite"} :
        /\ MeshOp([mesh EXCEPT !.anchorMode = md],
                  Did("setAnchorMode", <<IF md = "Viewport" THEN 0 ELSE 1>>, 0))
        /\ buf' = Begin(buf)

SetPosition(PS) ==
    /\ budget > 0
    /\ \E p \in PS :
        /\ MeshOp([mesh EXCEPT !.position = p], Did("setPosition", p, 0))
        /\ buf' = Begin(buf)

\* Sprite::setPosition on the sprite
MoveSprite(PS) ==
    /\ budget > 0
    /\ sprite.alive
    /\ \E p \in PS :
        /\ sprite' = [sprite EXCEPT !.position = p]
        /\ last' = Did("moveSprite", p, 0)
    /\ budget' = budget - 1
    /\ buf' = Begin(buf)
    /\ UNCHANGED <<gl, since, mesh, viewport, calls, load>>

\* the last shared_ptr to the sprite goes away: anchoredSprite_ expires.
\* What the sprite held stays in the record, as the memory it leaves behind.
DestroySprite ==
    /\ budget > 0
    /\ sprite.alive
    /\ sprite' = [sprite EXCEPT !.alive = FALSE]
    /\ last' = Did("destroySprite", <<>>, 0)
    /\ budget' = budget - 1
    /\ buf' = Begin(buf)
    /\ UNCHANGED <<gl, since, mesh, viewport, calls, load>>

AnchorSteps == 4

InitAnchor ==
    /\ mesh = [Placed(NewMesh(MeshW, MeshH)) EXCEPT
                  !.vertices = <<<<0 - 1, 0 - 1, 0>>, <<0, 1, 0>>, <<1, 0 - 1, 0>>>>,
                  !.polygons = <<Polygon(<<0, 1, 2>>, 3)>>]
    /\ buf = NewBuffer(MeshW, MeshH)
    /\ gl = NewGL
    /\ last = Did("new", <<>>, 0)
    /\ since = {"start"}
    /\ budget = AnchorSteps
    /\ sprite \in {[alive |-> TRUE, position |-> <<1, 1>>, hasTexture |-> TRUE,
                     width |-> 2, height |-> 1, scale |-> <<1, 2>>],
                    [alive |-> TRUE, position |-> <<3, 2>>, hasTexture |-> FALSE,
                     width |-> 0, height |-> 0, scale |-> <<1, 1>>]}
    /\ viewport = <<MeshW, MeshH>>
    /\ calls = <<>>
    /\ load = NoLoad

NextAnchor ==
    \/ AnchorToSprite({"TopLeft", "TopRight", "BottomLeft", "BottomRight", "Center"},
                      {<<0, 0>>, <<1, 0 - 1>>})
    \/ ClearSpriteAnchor
    \/ SetAnchorMode
    \/ SetPosition({<<1, 3>>, <<2, 2>>})
    \/ MoveSprite({<<2, 1>>, <<0, 2>>})
    \/ DestroySprite
    \/ RenderToBuffer({<<0, 0, 0>>})

SpecAnchor == InitAnchor /\ [][NextAnchor]_vars

(* ------------- building a mesh and rendering it to a buffer ----------- *)
BuildSteps == 3

\* a mesh of Mesh3D(MeshW, MeshH) with nothing added yet, and one with a
\* two-vertex polygon followed by a triangle that faces the camera
EmptyMesh == Placed(NewMesh(MeshW, MeshH))
TriMesh ==
    [EmptyMesh EXCEPT
        !.vertices = <<<<0 - 1, 0 - 1, 0>>, <<0, 1, 0>>, <<1, 0 - 1, 0>>>>,
        !.normals = <<<<0, 0, 0 - 1>>>>,
        !.polygons = <<Polygon(<<0, 1>>, 2), Polygon(<<0, 1, 2>>, 3)>>]

InitBuild ==
    /\ mesh \in {EmptyMesh, TriMesh}
    /\ buf \in {NewBuffer(MeshW, MeshH), Uploaded(clear(NewBuffer(MeshW, MeshH), 9)).buf}
    /\ gl = NewGL
    /\ last = Did("new", <<>>, 0)
    /\ since = {"start"}
    /\ budget = BuildSteps
    /\ sprite = NoSprite
    /\ viewport = <<MeshW, MeshH>>
    /\ calls = <<>>
    /\ load = NoLoad

NextBuild ==
    \/ AddVertex({<<1, 1, 0>>, <<0 - 1, 1, 1>>})
    \/ AddNormal({<<0, 0, 0 - 1>>, <<0, 0, 1>>})
    \/ AddPolygon({Polygon(<<2, 1, 3>>, 4), Polygon(<<0, 1, 2>>, 1), Polygon(<<>>, 1),
                   Polygon(<<7, 9>>, 2), Polygon(<<0, 1, 5>>, 5), Polygon(<<0, 0 - 1, 2>>, 6),
                   PolygonN(<<0, 2, 1>>, <<0, 0, 0>>, 7), PolygonN(<<0, 1, 2>>, <<4, 4, 4>>, 6)})
    \/ ClearGeometry
    \/ RenderToBuffer({<<0, 0, 0>>, <<3, 0 - 2, 1>>})

SpecBuild == InitBuild /\ [][NextBuild]_vars

(* ------------------- a buffer and a mesh on the SDLRenderer ------------ *)
SdlSteps == 3

\* buffer.upload(renderer)
Upload ==
    /\ budget > 0
    /\ budget' = budget - 1
    /\ buf' = upload(Begin(buf))
    /\ last' = Did("upload", <<>>, 0)
    /\ UNCHANGED <<gl, since, meshVars, load>>

\* one SDLRenderer::renderIndexedPixelBuffer pass over the buffer
SDLRender ==
    /\ budget > 0
    /\ budget' = budget - 1
    /\ \E r \in {sdlRenderIndexedPixelBuffer(Begin(buf))} :
           /\ buf' = r.buf
           /\ last' = Did("sdlRender", <<>>, IF r.drawn THEN 1 ELSE 0)
    /\ UNCHANGED <<gl, since, meshVars, load>>

\* Mesh3D::render(renderer, layerOffset, opacity) with the SDLRenderer
RenderSDL ==
    /\ budget > 0
    /\ budget' = budget - 1
    /\ \E r \in {renderSDL(mesh, sprite, Begin(buf), viewport)} :
           /\ mesh' = r.mesh
           /\ buf' = r.buf
           /\ calls' = r.calls
           /\ last' = Did("renderSDL", <<NonZero(buf)>>, IF r.drawn THEN 1 ELSE 0)
    /\ UNCHANGED <<gl, since, sprite, viewport, load>>

\* a mesh of Mesh3D(MeshW, MeshH) and its internal buffer, which getBuffer()
\* hands out for direct drawing
InitSDL ==
    /\ mesh = [Placed(FanMesh) EXCEPT !.autoRotation = <<0, 0, 0>>]
    /\ buf = NewBuffer(MeshW, MeshH)
    /\ gl = NewGL
    /\ last = Did("new", <<>>, 0)
    /\ since = {"start"}
    /\ budget = SdlSteps
    /\ sprite = NoSprite
    /\ viewport = <<MeshW, MeshH>>
    /\ calls = <<>>
    /\ load = NoLoad

NextSDL ==
    \/ SetPixel({<<0, 0>>, <<MeshW - 1, MeshH - 1>>, <<MeshW, 0>>}, {7})
    \/ Fill({9})
    \/ SetPaletteEntry({7, 9}, {Color(200, 100, 50, 25)})
    \/ SetVisible
    \/ SetMeshVisible
    \/ Upload
    \/ SDLRender
    \/ RenderSDL

SpecSDL == InitSDL /\ [][NextSDL]_vars

(* ------------- the internal buffer of a mesh across re-creation -------- *)
KeepSteps == 4

\* the renderer is given another window size: windowWidth_, windowHeight_
SetViewport(VS) ==
    /\ budget > 0
    /\ budget' = budget - 1
    /\ \E v \in VS \ {viewport} :
          /\ viewport' = v
          /\ last' = Did("setViewport", v, 0)
    /\ buf' = Begin(buf)
    /\ UNCHANGED <<gl, since, mesh, sprite, calls, load>>

\* a mesh of Mesh3D(MeshW, MeshH) as built, or after setBufferSize(0, MeshH)
\* and a first render, its buffer following the viewport width
InitKeep ==
    /\ sprite = NoSprite
    /\ viewport = <<MeshW, MeshH>>
    /\ budget = KeepSteps
    /\ load = NoLoad
    /\ \/ /\ mesh = TriMesh
          /\ buf = NewBuffer(MeshW, MeshH)
          /\ gl = NewGL
          /\ calls = <<>>
          /\ last = Did("new", <<>>, 0)
          /\ since = {"start"}
       \/ \E f \in {render(setBufferSize(TriMesh, 0, MeshH), sprite, NoBuffer, NewGL, viewport)} :
              /\ mesh = f.mesh
              /\ buf = Begin(f.pass.buf)
              /\ gl = f.pass.gl
              /\ calls = f.calls
              /\ last = Did("render", <<0>>, 1)
              /\ since = {}

NextKeep ==
    \/ (mesh.hasBuffer /\ SetPalette({[k \in PalIdx |-> Color(255 - k, k, 0, 255)]}))
    \/ (mesh.hasBuffer /\ SetPaletteEntry({7}, {Color(200, 100, 50, 25)}))
    \/ SetBufferSize({<<MeshW, MeshH>>, <<0, MeshH>>, <<MeshW - 1, MeshH>>})
    \/ SetViewport({<<MeshW, MeshH>>, <<MeshW + 1, MeshH>>})
    \/ Render

SpecKeep == InitKeep /\ [][NextKeep]_vars

(* ------------------------- the mesh factories ------------------------- *)
MaxSegments == 4
FactorySteps == 2

\* segment counts whose angles are multiples of 15 degrees
SphereSegments == {n \in 1..MaxSegments : 180 % n = 0 /\ (180 \div n) % 15 = 0}

\* m = Mesh3D::createCube(size), createPyramid(size) or createSphere(radius,
\* segments), followed by m->setBufferSize(MeshW, MeshH); the mesh replaces
\* the one held before
Create(m, rec) ==
    /\ budget' = budget - 1
    /\ mesh' = setBufferSize(m, MeshW, MeshH)
    /\ buf' = NoBuffer
    /\ last' = rec
    /\ calls' = <<>>
    /\ UNCHANGED <<gl, since, sprite, viewport, load>>

CreateCube(S) ==
    /\ budget > 0
    /\ \E size \in S : Create(createCube(size), Did("createCube", <<size>>, 0))

CreatePyramid(S) ==
    /\ budget > 0
    /\ \E size \in S : Create(createPyramid(size), Did("createPyramid", <<size>>, 0))

CreateSphere(R, N) ==
    /\ budget > 0
    /\ \E radius \in R, segments \in N :
          Create(createSphere(radius, segments), Did("createSphere", <<radius, segments>>, 0))

InitFactory ==
    /\ mesh = NewMesh(MeshW, MeshH)
    /\ buf = NewBuffer(MeshW, MeshH)
    /\ gl = NewGL
    /\ last = Did("new", <<>>, 0)
    /\ since = {"start"}
    /\ budget = FactorySteps
    /\ sprite = NoSprite
    /\ viewport = <<MeshW, MeshH>>
    /\ calls = <<>>
    /\ load = NoLoad

NextFactory ==
    \/ CreateCube({2, 4, 6})
    \/ CreatePyramid({2, 4, 6})
    \/ CreateSphere({1, 2, 30}, SphereSegments)
    \/ SetRotation(Rotations)
    \/ SetRenderMode

SpecFactory == InitFactory /\ [][NextFactory]_vars

(* -------------------- drawLine, one iteration per step ---------------- *)
LineFuel == 8

\* int arithmetic as a 32-bit two's-complement build computes it: a - b,
\* -a and std::abs(a), wrapped by 2^32 where the exact value leaves int
IntSub(a, b) ==
    IF b = IntMin
    THEN (IF a < 0 THEN (a + IntMax) + 1 ELSE a + IntMin)
    ELSE IntAdd(a, 0 - b)
IntNeg(a) == IntSub(0, a)
IntAbs(a) == IF a < 0 THEN IntNeg(a) ELSE a

\* drawLine up to its loop: dx, dy, sx, sy, err
LineBegin(L, I) ==
    /\ budget > 0
    /\ load.pc = "idle"
    /\ budget' = budget - 1
    /\ buf' = Begin(buf)
    /\ \E l \in L, i \in I :
          /\ load' = [pc |-> "line",
                      x0 |-> l[1][1], y0 |-> l[1][2], x1 |-> l[2][1], y1 |-> l[2][2],
                      dx |-> IntAbs(IntSub(l[2][1], l[1][1])),
                      dy |-> IntAbs(IntSub(l[2][2], l[1][2])),
                      sx |-> IF l[1][1] < l[2][1] THEN 1 ELSE 0 - 1,
                      sy |-> IF l[1][2] < l[2][2] THEN 1 ELSE 0 - 1,
                      err |-> IntSub(IntAbs(IntSub(l[2][1], l[1][1])),
                                     IntAbs(IntSub(l[2][2], l[1][2]))),
                      paletteIndex |-> i, visited |-> 0]
          /\ last' = Did("drawLine", <<l[1][1], l[1][2], l[2][1], l[2][2], i>>, 0)
    /\ UNCHANGED <<gl, since, meshVars>>

\* one iteration of while (true): the point is set; at the end point the
\* loop is left and drawLine returns, else err, x0 and y0 move on.  The
\* record of the call gets the number of points visited when it returns.
LineStep ==
    /\ load.pc = "line"
    /\ load.visited < LineFuel
    /\ buf' = setPixel(buf, load.x0, load.y0, load.paletteIndex)
    /\ IF load.x0 = load.x1 /\ load.y0 = load.y1
       THEN /\ load' = NoLoad
            /\ last' = [last EXCEPT !.ret = load.visited + 1]
       ELSE /\ \E e2 \in {IntAdd(load.err, load.err)} :
                 \E stepX \in {e2 > IntNeg(load.dy)}, stepY \in {e2 < load.dx} :
                    \E errA \in {IF stepX THEN IntSub(load.err, load.dy) ELSE load.err} :
                       load' = [load EXCEPT
                                  !.x0 = IF stepX THEN IntAdd(@, load.sx) ELSE @,
                                  !.y0 = IF stepY THEN IntAdd(@, load.sy) ELSE @,
                                  !.err = IF stepY THEN IntAdd(errA, load.dx) ELSE errA,
                                  !.visited = @ + 1]
            /\ last' = last
    /\ since' = since \cup (IF buf'.pixels # buf.pixels \/ buf'.pixelsDirty # buf.pixelsDirty
                            THEN {"pix"} ELSE {})
    /\ UNCHANGED <<gl, budget, meshVars>>

\* end points a projection can produce: far outside the buffer
FarLines ==
    {<<<<0, IntMin>>, <<1, IntMax>>>>,
     <<<<IntMax, 0>>, <<IntMin, 1>>>>,
     <<<<0, 0>>, <<IntMax, 1>>>>}

InitLine ==
    /\ buf = NewBuffer(BufW, BufH)
    /\ gl = NewGL
    /\ last = Did("new", <<>>, 0)
    /\ since = {"start"}
    /\ budget = 1
    /\ mesh = NewMesh(BufW, BufH)
    /\ sprite = NoSprite
    /\ viewport = <<BufW, BufH>>
    /\ calls = <<>>
    /\ load = NoLoad

NextLine ==
    \/ LineBegin((Points \X Points) \cup FarLines, {7})
    \/ LineStep

SpecLine == InitLine /\ [][NextLine]_vars

\* an iteration that can run does run
FairLine == SpecLine /\ WF_vars(LineStep)

(* ======================= properties of the buffer ===================== *)
Cells(b) == (0..(b.width - 1)) \X (0..(b.height - 1))

PixelOps == {"setPixel", "drawLine", "fillTriangle", "fillRect", "clear", "fill"}
PaletteOps == {"setPaletteEntry", "setPalette", "setPalettePtr", "loadPalette"}

\* C1: whatever the arguments of setPixel, drawLine, fillTriangle, fillRect,
\* clear and fill, every cell a write is addressed to lies inside the buffer
\* and the pixel array keeps its length width * height.
C1_WritesInBounds ==
    /\ Len(buf.pixels) = buf.width * buf.height
    /\ \A c \in buf.touched : 0 <= c[1] /\ c[1] < buf.width /\ 0 <= c[2] /\ c[2] < buf.height

\* a triangle with vertices left of, above and below the buffer was clipped
C1_Witness ==
    /\ last.op = "fillTriangle"
    /\ last.args[1] < 0
    /\ last.args[4] < 0
    /\ last.args[6] >= buf.height
    /\ buf.touched # {}

\* C2: an in-bounds setPixel(x,y,i) makes getPixel(x,y) return i and changes
\* no other pixel.
C2_Step ==
    (last'.op = "setPixel" /\ InBounds(buf, last'.args[1], last'.args[2]))
    => (/\ getPixel(buf', last'.args[1], last'.args[2]) = last'.args[3]
        /\ \A c \in Cells(buf) \ {<<last'.args[1], last'.args[2]>>} :
              getPixel(buf', c[1], c[2]) = getPixel(buf, c[1], c[2])
        /\ Len(buf'.pixels) = Len(buf.pixels))

C2_SetThenGet == [][C2_Step]_vars

\* index 255 was written to the last cell of a buffer holding other indices
C2_Witness ==
    /\ last.op = "setPixel"
    /\ last.args = <<BufW - 1, BufH - 1, 255>>
    /\ getPixel(buf, BufW - 1, BufH - 1) = 255
    /\ getPixel(buf, 0, 0) = 9

\* C3: out of bounds, getPixel returns 0 and setPixel changes no pixel and
\* neither dirty flag.
C3_Step ==
    /\ (last'.op = "setPixel" /\ ~InBounds(buf, last'.args[1], last'.args[2]))
         => (/\ buf'.pixels = buf.pixels
             /\ buf'.pixelsDirty = buf.pixelsDirty
             /\ buf'.paletteDirty = buf.paletteDirty)
    /\ (last'.op = "getPixel" /\ ~InBounds(buf, last'.args[1], last'.args[2]))
         => (last'.ret = 0 /\ buf'.pixels = buf.pixels)

CleanPixels == gl.textures[buf.glIndexTexture]
CleanPalette == gl.textures[buf.glPaletteTexture]

\* C4: every step that changes a pixel leaves pixelsDirty set and every step
\* that changes the palette leaves paletteDirty set; so pixels that differ
\* from their content at the last markPixelsClean imply arePixelsDirty(),
\* and likewise for the palette.
C4_Step ==
    /\ (buf'.pixels # buf.pixels) => buf'.pixelsDirty
    /\ (buf'.palette # buf.palette) => buf'.paletteDirty

C4_State ==
    /\ (buf.glIndexTexture = 0) => buf.pixelsDirty
    /\ (buf.glPaletteTexture = 0) => buf.paletteDirty
    /\ (buf.glIndexTexture # 0 /\ CleanPixels # buf.pixels) => buf.pixelsDirty
    /\ (buf.glPaletteTexture # 0 /\ CleanPalette # buf.palette) => buf.paletteDirty

C4_DirtyCoversChanges == [][C4_Step]_vars /\ []C4_State

\* after an upload a rectangle was filled: the pixels differ from the upload
C4_Witness ==
    /\ last.op = "fillRect"
    /\ buf.glIndexTexture # 0
    /\ CleanPixels # buf.pixels
    /\ buf.pixelsDirty
    /\ ~buf.paletteDirty

\* C5: palette operations change neither pixelsDirty nor a pixel, pixel
\* operations change neither paletteDirty nor a palette entry; with both
\* flags false, setPaletteEntry sets paletteDirty only and an in-bounds
\* setPixel sets pixelsDirty only.
C5_Step ==
    /\ (last'.op \in PaletteOps)
         => (buf'.pixelsDirty = buf.pixelsDirty /\ buf'.pixels = buf.pixels)
    /\ (last'.op \in PixelOps)
         => (buf'.paletteDirty = buf.paletteDirty /\ buf'.palette = buf.palette)
    /\ (last'.op = "setPaletteEntry" /\ ~buf.pixelsDirty /\ ~buf.paletteDirty)
         => (buf'.paletteDirty /\ ~buf'.pixelsDirty)
    /\ (last'.op = "setPixel" /\ InBounds(buf, last'.args[1], last'.args[2])
           /\ ~buf.pixelsDirty /\ ~buf.paletteDirty)
         => (buf'.pixelsDirty /\ ~buf'.paletteDirty)

C5_FlagsOrthogonal == [][C5_Step]_vars

\* setPaletteEntry(3, c) after an upload
C5_Witness ==
    /\ last.op = "setPaletteEntry"
    /\ last.args[1] = 3
    /\ buf.paletteDirty
    /\ ~buf.pixelsDirty
    /\ buf.palette[3] # GrayPalette[3]

\* the texture the buffer's index (palette) plane is uploaded to
IndexTexture(b, g) == g.textures[b.glIndexTexture]
PaletteTexture(b, g) == g.textures[b.glPaletteTexture]

\* C6: a pass over a visible buffer uploads the index plane exactly when
\* pixelsDirty was set and the palette exactly when paletteDirty was set; a
\* flag falls only in a pass, in the step that uploads its own resource;
\* hence a pass after nothing but palette mutations since the previous pass
\* uploads the palette and leaves the index texture alone.
C6_Pass ==
    LET r0 == glEnsureTextures(PassStart(buf, gl))
        r1 == glUploadPixels(r0)
        r2 == glUploadPalette(r1)
    IN  /\ last'.upPix = buf.pixelsDirty
        /\ last'.upPal = buf.paletteDirty
        /\ ~buf'.pixelsDirty
        /\ ~buf'.paletteDirty
        /\ last'.upPix => (IndexTexture(buf', gl') = buf.pixels)
        /\ last'.upPal => (PaletteTexture(buf', gl') = buf.palette)
        /\ (~last'.upPix /\ buf.glIndexTexture # 0)
             => (IndexTexture(buf', gl') = IndexTexture(buf, gl))
        /\ (~last'.upPal /\ buf.glPaletteTexture # 0)
             => (PaletteTexture(buf', gl') = PaletteTexture(buf, gl))
        /\ r1.buf.paletteDirty = r0.buf.paletteDirty
        /\ r2.buf.pixelsDirty = r1.buf.pixelsDirty
        /\ glFinish(r2).buf.pixelsDirty = r2.buf.pixelsDirty
        /\ glFinish(r2).buf.paletteDirty = r2.buf.paletteDirty

C6_Step ==
    /\ (last'.op = "glRender" /\ buf.visible) => C6_Pass
    /\ (buf.pixelsDirty /\ ~buf'.pixelsDirty) => (last'.op = "glRender" /\ last'.upPix)
    /\ (buf.paletteDirty /\ ~buf'.paletteDirty) => (last'.op = "glRender" /\ last'.upPal)
    /\ (last'.op = "glRender" /\ buf.visible /\ since = {"pal"})
         => (last'.upPal /\ ~last'.upPix)

C6_UploadPerFlag == [][C6_Step]_vars

\* a pass that uploaded the palette and not the index plane
C6_Witness ==
    /\ last.op = "glRender"
    /\ last.ret = 1
    /\ last.upPal
    /\ ~last.upPix
    /\ PaletteTexture(buf, gl) # GrayPalette

(* ======================== properties of the mesh ====================== *)
\* C7: Mesh3D::render on a visible mesh leaves the buffer with exactly what
\* the polygons of this call drew on an all-zero buffer, whatever it held
\* before: every cell no draw call of this frame covers holds index 0.  On an
\* invisible mesh it changes neither the buffer, nor the mesh, nor the GPU.
C7_Step ==
    (last'.op = "render") =>
        (IF mesh.visible
         THEN LET fresh == renderToBuffer(mesh', sprite, NewBuffer(buf'.width, buf'.height))
              IN  /\ buf'.pixels = fresh.pixels
                  /\ \A c \in Cells(buf') \ fresh.touched : getPixel(buf', c[1], c[2]) = 0
         ELSE /\ buf' = Begin(buf)
              /\ mesh' = mesh
              /\ gl' = gl)

C7_RenderRedrawsAll == [][C7_Step]_vars

\* a frame was rendered over a buffer that had pixels set, it drew
\* something, and at least one cell is back to the background index
C7_Witness ==
    /\ last.op = "render"
    /\ mesh.visible
    /\ last.args[1] > 0
    /\ calls # <<>>
    /\ \E c \in Cells(buf) : getPixel(buf, c[1], c[2]) = 0
    /\ \E c \in Cells(buf) : getPixel(buf, c[1], c[2]) # 0

\* the polygons (positions in polygons_) the last frame issued a call for
DrawnPolygons == {calls[j].poly : j \in 1..Len(calls)}

\* the Z component of the sum of a polygon's transformed vertices; for a
\* solid centred on the origin its sign is that of the outward normal's Z
OutwardZ(m, k) ==
    LET poly == m.polygons[k]
        zs == [j \in 1..Len(poly.vertices) |-> Transformed(m, poly.vertices[j])[3]]
        Sum[j \in 0..Len(zs)] == IF j = 0 THEN 0 ELSE Sum[j - 1] + zs[j]
    IN  Sum[Len(zs)]

\* a frame of the cube of createCube, culling on, no rotation
CubeFrame ==
    /\ last.op = "render"
    /\ mesh.visible
    /\ mesh.backFaceCulling
    /\ mesh.rotation = <<0, 0, 0>>
    /\ mesh.vertices = CubeVertices(CubeHalf)
    /\ mesh.polygons = CubePolygons

\* C8 as stated: such a frame draws exactly 3 of the 6 faces
C8_ThreeFacesDrawn == CubeFrame => Cardinality(DrawnPolygons) = 3

\* C8: such a frame draws exactly 1 of the 6 faces, the one whose outward
\* normal has a positive Z component (the face {5,4,7,6}); the four faces seen
\* edge-on (intensity 0) and the face turned the other way are skipped.
C8_OneFaceDrawn ==
    CubeFrame =>
        /\ DrawnPolygons = {k \in 1..Len(mesh.polygons) : OutwardZ(mesh, k) > 0}
        /\ Cardinality(DrawnPolygons) = 1
        /\ Cardinality((1..Len(mesh.polygons)) \ DrawnPolygons) = 5

C8_Witness ==
    /\ CubeFrame
    /\ calls # <<>>
    /\ \E c \in Cells(buf) : getPixel(buf, c[1], c[2]) = 2

\* the intensity of a polygon's normal, squared and compared with a
\* threshold of t hundredths
Brighter(n, t) == (0 - n.v[3]) > 0 /\ 10000 * n.v[3] * n.v[3] > t * t * n.lenSq

\* C9: a drawn polygon of base color b is drawn in b when its intensity is
\* above 0.67, in b + 7 when it is above 0.33 and not above 0.67, in b + 14
\* otherwise, so a back face (drawn with culling off) in b + 14; for b in
\* 1..7 the index is in the band 1..7, 8..14 or 15..21 of that intensity,
\* and no pixel of the frame holds anything but 0 or such an index.
C9_Bands ==
    (last.op = "render") =>
        /\ \A j \in 1..Len(calls) :
              LET poly == mesh.polygons[calls[j].poly]
                  b == poly.color
                  n == FaceNormal(mesh, poly)
              IN  /\ Brighter(n, 67) => calls[j].color = b
                  /\ (Brighter(n, 33) /\ ~Brighter(n, 67)) => calls[j].color = b + 7
                  /\ ~Brighter(n, 33) => calls[j].color = b + 14
                  /\ n.v[3] >= 0 => calls[j].color = b + 14
                  /\ (b \in 1..7) =>
                        /\ calls[j].color \in 1..21
                        /\ Brighter(n, 67) => calls[j].color \in 1..7
                        /\ (Brighter(n, 33) /\ ~Brighter(n, 67)) => calls[j].color \in 8..14
                        /\ ~Brighter(n, 33) => calls[j].color \in 15..21
        /\ mesh.visible =>
              \A c \in Cells(buf) :
                  \/ getPixel(buf, c[1], c[2]) = 0
                  \/ \E j \in 1..Len(calls) : getPixel(buf, c[1], c[2]) = calls[j].color

\* a frame with culling off that drew a bright, a medium and a dark
\* polygon and a back face
C9_Witness ==
    /\ last.op = "render"
    /\ ~mesh.backFaceCulling
    /\ \E j \in 1..Len(calls) : calls[j].color \in 1..7
    /\ \E j \in 1..Len(calls) : calls[j].color \in 8..14
    /\ \E j \in 1..Len(calls) :
          /\ calls[j].color \in 15..21
          /\ FaceNormal(mesh, mesh.polygons[calls[j].poly]).v[3] > 0
    /\ \E c \in Cells(buf) : getPixel(buf, c[1], c[2]) \in 15..21

\* the calls of the last frame that belong to polygon k
CallsOf(k) ==
    LET IsOfK(c) == c.poly = k
    IN  SelectSeq(calls, IsOfK)

\* C10: for the mesh as it stands, Filled and Wireframe agree on which
\* polygons are culled and on each polygon's one color; a culled polygon
\* issues no call, a drawn polygon of N vertices issues the N - 2 fan triangles
\* (p0, pi, pi+1) by fillTriangle when Filled and the N edges
\* (pi, p((i+1) mod N)) by drawLine when Wireframe; and a frame issues the
\* calls of its mode.
C10_ModesAgree ==
    LET mF == [mesh EXCEPT !.renderMode = "Filled"]
        mW == [mesh EXCEPT !.renderMode = "Wireframe"]
    IN  /\ \A k \in 1..Len(mesh.polygons) :
              LET poly == mesh.polygons[k]
                  N == Len(poly.vertices)
                  F == PolygonCalls(mF, sprite, k)
                  W == PolygonCalls(mW, sprite, k)
                  P(j) == Projected(mesh, FinalPositionTwice(mesh, sprite), poly.vertices[j])
              IN  /\ (F = <<>>) <=> (W = <<>>)
                  /\ (N >= 3 /\ Culled(mesh, FaceNormal(mesh, poly))) => (F = <<>> /\ W = <<>>)
                  /\ (N >= 3 /\ ~Culled(mesh, FaceNormal(mesh, poly))) =>
                        /\ Len(F) = N - 2
                        /\ Len(W) = N
                        /\ \A i \in 1..(N - 2) :
                              /\ F[i].kind = "fillTriangle"
                              /\ F[i].pts = <<P(1), P(i + 1), P(i + 2)>>
                              /\ F[i].color = W[1].color
                        /\ \A i \in 0..(N - 1) :
                              /\ W[i + 1].kind = "drawLine"
                              /\ W[i + 1].pts = <<P(i + 1), P(((i + 1) % N) + 1)>>
                              /\ W[i + 1].color = W[1].color
        /\ (last.op = "render" /\ mesh.visible) =>
              \A k \in 1..Len(mesh.polygons) : CallsOf(k) = PolygonCalls(mesh, sprite, k)

\* a Wireframe frame that drew the five edges of a pentagon and culled
\* some other polygon
C10_Witness ==
    /\ last.op = "render"
    /\ mesh.visible
    /\ mesh.renderMode = "Wireframe"
    /\ \E k \in 1..Len(mesh.polygons) :
          Len(mesh.polygons[k].vertices) = 5 /\ Len(CallsOf(k)) = 5
    /\ \E k \in 1..Len(mesh.polygons) :
          Len(mesh.polygons[k].vertices) >= 3 /\ CallsOf(k) = <<>>

\* the mesh without its polygons of fewer than 3 vertex indices
WithoutDegenerate(m) ==
    LET Proper(poly) == Len(poly.vertices) >= 3
    IN  [m EXCEPT !.polygons = SelectSeq(@, Proper)]

\* every polygon of at least 3 vertex indices names vertices of the mesh
ProperPolygonsValid(m) ==
    \A k \in 1..Len(m.polygons) :
        Len(m.polygons[k].vertices) >= 3 =>
            \A j \in 1..Len(m.polygons[k].vertices) :
                m.polygons[k].vertices[j] \in 0..(Len(m.vertices) - 1)

\* C11: renderToBuffer on a mesh with no vertices or no polygons leaves the
\* buffer as it was, flags included; a polygon of fewer than 3 vertex indices
\* issues no draw call and, whatever its indices, causes no read outside the
\* arrays and no fault, and the buffer ends as if the mesh held only its
\* other polygons.
C11_Step ==
    (last'.op = "renderToBuffer") =>
        /\ (mesh.vertices = <<>> \/ mesh.polygons = <<>>) =>
              (buf' = Begin(buf) /\ last'.ret = 0)
        /\ ProperPolygonsValid(mesh) =>
              /\ last'.ret = 0
              /\ \A j \in 1..Len(calls') : Len(mesh.polygons[calls'[j].poly].vertices) >= 3
              /\ buf'.pixels = renderToBuffer(WithoutDegenerate(mesh), sprite, Begin(buf)).pixels

C11_DegenerateSkipped == [][C11_Step]_vars

\* a mesh whose first polygon has two vertex indices was rendered and its
\* triangle was drawn
C11_Witness ==
    /\ last.op = "renderToBuffer"
    /\ last.ret = 0
    /\ Len(mesh.polygons) >= 2
    /\ Len(mesh.polygons[1].vertices) < 3
    /\ calls # <<>>
    /\ \E c \in Cells(buf) : getPixel(buf, c[1], c[2]) = 3

\* C12 as stated: in every state reached by addVertex, addNormal, addPolygon
\* and clear, every vertex index of every polygon is an index of vertices_
\* and every normal index an index of normals_, and renderToBuffer has read
\* nothing outside the arrays.
C12_IndicesValid ==
    /\ \A k \in 1..Len(mesh.polygons) :
          /\ \A j \in 1..Len(mesh.polygons[k].vertices) :
                mesh.polygons[k].vertices[j] \in 0..(Len(mesh.vertices) - 1)
          /\ \A j \in 1..Len(mesh.polygons[k].normals) :
                mesh.polygons[k].normals[j] \in 0..(Len(mesh.normals) - 1)
    /\ (last.op = "renderToBuffer") => (last.ret = 0)

\* every draw call is the projection of its polygon about the origin o
\* (in half pixels)
DrawnAbout(m, cs, o) ==
    \A j \in 1..Len(cs) :
        LET poly == m.polygons[cs[j].poly]
        IN  \A i \in 1..Len(cs[j].pts) :
                \E v \in 1..Len(poly.vertices) :
                    cs[j].pts[i] = Projected(m, o, poly.vertices[v])

\* C13: a renderToBuffer in Sprite mode with the anchored sprite alive draws
\* about the sprite's anchor point plus the anchor offset; with the sprite
\* gone (or none ever anchored) it draws about the mesh's position, reports
\* nothing, and neither it nor the sprite's end changes anchorMode.
C13_Step ==
    /\ (last'.op = "renderToBuffer" /\ mesh.anchorMode = "Sprite") =>
          /\ last'.ret = 0
          /\ calls' # <<>>
          /\ mesh'.anchorMode = "Sprite"
          /\ IF mesh.anchored /\ sprite.alive
             THEN DrawnAbout(mesh, calls',
                     <<AnchorPositionTwice(sprite, mesh.spriteAnchor)[1] + 2 * mesh.anchorOffset[1],
                       AnchorPositionTwice(sprite, mesh.spriteAnchor)[2] + 2 * mesh.anchorOffset[2]>>)
             ELSE DrawnAbout(mesh, calls', <<2 * mesh.position[1], 2 * mesh.position[2]>>)
    /\ (last'.op = "destroySprite") => (mesh'.anchorMode = mesh.anchorMode)

Fitted == load.pc = "done" /\ load.boxes # <<>>

Uniques == {load.colors[i] : i \in 1..Len(load.colors)}

SameRGB(a, b) == a.r = b.r /\ a.g = b.g /\ a.b = b.b

\* C14 as stated: after a palette fit of an image of at most 256 unique
\* colours, the entry the nearest-colour lookup finds for every colour of the
\* image has that colour's R, G and B.
C14_Lossless ==
    (Fitted /\ Cardinality(Uniques) <= PaletteSize) =>
        \A c \in Uniques :
            SameRGB(buf.palette[findNearestPaletteIndex(c, buf.palette, PaletteSize)], c)

\* the boxes together, as one bag (boxes lo..hi)
RECURSIVE BoxesTogether(_, _, _)
BoxesTogether(boxes, lo, hi) ==
    IF lo > hi THEN EmptyBag
    ELSE IF lo = hi THEN boxes[lo]
    ELSE Then(BoxesTogether(boxes, lo, (lo + hi) \div 2), LAMBDA left :
            Then(BoxesTogether(boxes, (lo + hi) \div 2 + 1, hi), LAMBDA right :
                left (+) right))

C15_Running == load.pc = "split"
C15_Done == load.pc = "done"

C15_Inv ==
    (load.boxes # <<>>) =>
        /\ Len(load.colors) >= 2
        /\ Len(load.boxes) \in 1..PaletteSize
        /\ \A i \in 1..Len(load.boxes) : BagToSet(load.boxes[i]) # {}
        /\ BoxesTogether(load.boxes, 1, Len(load.boxes)) = BagOf(load.colors)
        /\ C15_Done =>
              /\ \/ Len(load.boxes) = PaletteSize
                 \/ \A i \in 1..Len(load.boxes) : computeRange(load.boxes[i]) = <<0, 0, 0>>
              /\ \A k \in Len(load.boxes)..(PaletteSize - 1) :
                    buf.palette[k] = Color(0, 0, 0, 255)

\* a box is added only while some box has a range, one at a time
C15_Step ==
    (load'.boxes # load.boxes /\ C15_Running) =>
        /\ Len(load'.boxes) = Len(load.boxes) + 1
        /\ \E i \in 1..Len(load.boxes) : computeRange(load.boxes[i]) # <<0, 0, 0>>

\* C15: for every image of two or more pixels the split loop ends; while it
\* runs and when it has ended there are between 1 and 256 boxes, none empty,
\* together holding exactly the pixels' colours; it adds a box only while some
\* box has a nonzero range, and ends with 256 boxes or with no range left;
\* the palette slots from the number of boxes on are (0,0,0,255).
C15_SplitLoop ==
    /\ []C15_Inv
    /\ [][C15_Step]_vars
    /\ (C15_Running ~> C15_Done)

\* the loop ended early, with several boxes and slots left over
C15_Witness ==
    /\ Fitted
    /\ Len(load.boxes) > 1 /\ Len(load.boxes) < PaletteSize
    /\ buf.palette[Len(load.boxes)] = Color(0, 0, 0, 255)
    /\ buf.palette[0] # Color(0, 0, 0, 255)

SquaredDistance(c, e) ==
    (c.r - e.r) * (c.r - e.r) + (c.g - e.g) * (c.g - e.g) + (c.b - e.b) * (c.b - e.b)

Probes ==
    FewColors \cup {Color(1, 0, 0, 255), Color(255, 255, 255, 0), Color(128, 127, 0, 255),
                    Color(3, 0, 0, 255), Color(254, 1, 0, 7)}

LowestNearest(c, palette, k) ==
    \A j \in PalIdx :
        /\ SquaredDistance(c, palette[k]) <= SquaredDistance(c, palette[j])
        /\ j < k => SquaredDistance(c, palette[k]) < SquaredDistance(c, palette[j])

\* C16: for the palette of the buffer after a load (the default palette, a
\* descending palette with every colour twice, a fitted palette) and every colour of the image and of the probes, the index
\* findNearestPaletteIndex returns has the least squared R,G,B distance of
\* all 256 entries and is the lowest index with that distance.
C16_NearestLowestIndex ==
    C15_Done =>
        \A c \in Uniques \cup Probes :
            \A k \in {findNearestPaletteIndex(c, buf.palette, PaletteSize)} :
                LowestNearest(c, buf.palette, k)

\* a pixel was stored whose nearest entry is in the palette twice
C16_Witness ==
    /\ C15_Done /\ load.colors # <<>> /\ load.dest = <<0, 0>>
    /\ \E j \in PalIdx :
          /\ j > buf.pixels[1]
          /\ SquaredDistance(load.colors[1], buf.palette[j])
               = SquaredDistance(load.colors[1], buf.palette[buf.pixels[1]])
    /\ LowestNearest(load.colors[1], buf.palette, buf.pixels[1])

(* ================== properties of the drawing calls =================== *)
\* the cell c is (x + a, y + b) for some 0 <= a < w, 0 <= b < h
InRect(c, x, y, w, h) ==
    /\ w > 0 /\ h > 0
    /\ c[1] >= x /\ (IF x >= 0 THEN c[1] - x < w ELSE c[1] < x + w)
    /\ c[2] >= y /\ (IF y >= 0 THEN c[2] - y < h ELSE c[2] < y + h)

\* the buffer after setPixel(x + a, y + b, i) for all 0 <= a < w, 0 <= b < h
\* (pixels and dirty flags)
AfterSetPixels(b, x, y, w, h, i) ==
    LET hit == {c \in Cells(b) : InRect(c, x, y, w, h)}
    IN  [pixels |-> [k \in 1..Len(b.pixels) |->
                        IF <<(k - 1) % b.width, (k - 1) \div b.width>> \in hit
                        THEN i ELSE b.pixels[k]],
         pixelsDirty |-> b.pixelsDirty \/ hit # {},
         paletteDirty |-> b.paletteDirty,
         dirty |-> b.dirty \/ hit # {}]

C17_Step ==
    (last'.op = "fillRect") =>
        \E e \in {AfterSetPixels(buf, last'.args[1], last'.args[2], last'.args[3],
                                  last'.args[4], last'.args[5])} :
            /\ buf'.pixels = e.pixels
            /\ buf'.pixelsDirty = e.pixelsDirty
            /\ buf'.paletteDirty = e.paletteDirty
            /\ buf'.dirty = e.dirty

\* C17 as stated: for every x, y, w, h a fillRect(x, y, w, h, i) call leaves
\* the pixel array and the dirty flags that setPixel(x + a, y + b, i) for all
\* 0 <= a < w, 0 <= b < h leaves.
C17_FillRectAsSetPixels == [][C17_Step]_vars

\* the cell c lies on the closed segment between p and q (p, q on one row or
\* one column)
OnSegment(c, p, q) ==
    /\ c[1] >= Min(p[1], q[1]) /\ c[1] <= Max(p[1], q[1])
    /\ c[2] >= Min(p[2], q[2]) /\ c[2] <= Max(p[2], q[2])

\* C18: a drawLine(x0, y0, x1, y1, i) whose end points are in bounds and on
\* one row or one column sets every pixel of the closed segment between them
\* to i and leaves every other pixel as it was.
C18_Step ==
    LET a == last'.args
    IN  (/\ last'.op = "drawLine"
         /\ InBounds(buf, a[1], a[2]) /\ InBounds(buf, a[3], a[4])
         /\ (a[1] = a[3] \/ a[2] = a[4])) =>
            \A c \in Cells(buf) :
                getPixel(buf', c[1], c[2]) =
                    IF OnSegment(c, <<a[1], a[2]>>, <<a[3], a[4]>>)
                    THEN a[5] ELSE getPixel(buf, c[1], c[2])

C18_StraightLine == [][C18_Step]_vars

\* a row was drawn from its right end to its left end across a buffer that
\* held other values
C18_Witness ==
    /\ last.op = "drawLine"
    /\ last.args = <<BufW - 1, 0, 0, 0, 7>>
    /\ \A x \in 0..(BufW - 1) : getPixel(buf, x, 0) = 7
    /\ \E c \in Cells(buf) : getPixel(buf, c[1], c[2]) \notin {0, 7}

\* C19: a fillTriangle whose three Y values are equal leaves the buffer as it
\* was: no pixel is addressed or changed, and pixelsDirty, paletteDirty and
\* dirty keep their values.
C19_Step ==
    (/\ last'.op = "fillTriangle"
     /\ last'.args[2] = last'.args[4] /\ last'.args[4] = last'.args[6]) =>
        buf' = Begin(buf)

C19_FlatTriangleNoOp == [][C19_Step]_vars

\* three different points of row 0 were passed on a buffer with clean pixels
C19_Witness ==
    /\ last.op = "fillTriangle"
    /\ last.args[2] = 0 /\ last.args[4] = 0 /\ last.args[6] = 0
    /\ last.args[1] = 0 /\ last.args[3] = BufW - 1 /\ last.args[5] = 1
    /\ ~buf.pixelsDirty

\* C20: after clear(i) or fill(i), getPixel(x, y) = i for every in-bounds
\* (x, y), whatever the buffer held.
C20_Step ==
    (last'.op \in {"clear", "fill"}) =>
        \A c \in Cells(buf') : getPixel(buf', c[1], c[2]) = last'.args[1]

C20_ClearSetsAll == [][C20_Step]_vars

\* fill(255) on a buffer that held a line and a point
C20_Witness ==
    /\ last.op = "fill"
    /\ last.args = <<255>>
    /\ getPixel(buf, BufW - 1, BufH - 1) = 255
    /\ buf.pixelsDirty

(* ===================== properties of the palette ====================== *)
\* C21: after setPalette(P) (either overload, P not null) getPalette()
\* returns 256 entries whose r, g, b and a are those of P; after
\* setPaletteEntry(k, c) entry k is c and every other entry is as before.
C21_Step ==
    /\ (last'.op \in {"setPalette", "setPalettePtr"} /\ last'.args # <<>>) =>
          /\ DOMAIN getPalette(buf') = PalIdx
          /\ PaletteBytes(getPalette(buf')) = last'.args
    /\ (last'.op = "setPaletteEntry") =>
          /\ getPaletteEntry(buf', last'.args[1])
               = Color(last'.args[2], last'.args[3], last'.args[4], last'.args[5])
          /\ \A k \in PalIdx \ {last'.args[1]} :
                getPaletteEntry(buf', k) = getPaletteEntry(buf, k)

C21_PaletteRoundTrip == [][C21_Step]_vars

\* a palette whose alpha differs from entry to entry replaced the default
C21_Witness ==
    /\ last.op = "setPalette"
    /\ getPalette(buf)[255] = Color(0, 255, 0, 253)
    /\ getPalette(buf)[1].a = 3

(* ==================== properties of fillTriangle ====================== *)
\* the cells of row y between the long-edge X and the short-edge X of the
\* triangle v (sorted by Y), both ends included
RowSpan(b, v, y) ==
    LET xa == EdgeXA(v[1][1], v[1][2], v[3][1], v[3][2], y)
        xb == EdgeXB(v[1][1], v[1][2], v[2][1], v[2][2], v[3][1], v[3][2], y)
    IN  {c \in Cells(b) : c[2] = y /\ c[1] >= Min(xa, xb) /\ c[1] <= Max(xa, xb)}

\* C22: a fillTriangle whose three Y values are not all equal writes, of the
\* cells of the buffer, exactly those of the rows from the least to the
\* greatest vertex Y that lie in the inclusive span between the long-edge X
\* and the short-edge X of their row; they get the index, every other cell
\* keeps its value; every written cell is in the bounding box of the three
\* vertices, and every vertex inside the buffer is written.
C22_Step ==
    LET a == last'.args
        pts == {<<a[1], a[2]>>, <<a[3], a[4]>>, <<a[5], a[6]>>}
        v == SortByY(<<a[1], a[2]>>, <<a[3], a[4]>>, <<a[5], a[6]>>)
        minY == SetMin({q[2] : q \in pts})
        maxY == SetMax({q[2] : q \in pts})
        minX == SetMin({q[1] : q \in pts})
        maxX == SetMax({q[1] : q \in pts})
    IN  (last'.op = "fillTriangle" /\ ~(a[2] = a[4] /\ a[4] = a[6])) =>
            /\ buf'.touched = UNION {RowSpan(buf, v, y) : y \in minY..maxY}
            /\ \A c \in Cells(buf) :
                  getPixel(buf', c[1], c[2]) =
                      IF c \in buf'.touched THEN a[7] ELSE getPixel(buf, c[1], c[2])
            /\ \A c \in buf'.touched :
                  /\ c[1] >= minX /\ c[1] <= maxX
                  /\ c[2] >= minY /\ c[2] <= maxY
            /\ \A q \in pts : InBounds(buf, q[1], q[2]) => q \in buf'.touched

StdRx(q, v) ==
    <<v[1], v[2] * Cos4(q) - v[3] * Sin4(q), v[2] * Sin4(q) + v[3] * Cos4(q)>>
StdRy(q, v) ==
    <<v[1] * Cos4(q) + v[3] * Sin4(q), v[2], v[3] * Cos4(q) - v[1] * Sin4(q)>>
StdRz(q, v) ==
    <<v[1] * Cos4(q) - v[2] * Sin4(q), v[1] * Sin4(q) + v[2] * Cos4(q), v[3]>>
StdRotate(v, rot) == StdRz(rot[3], StdRy(rot[2], StdRx(rot[1], v)))

\* C23: every transformed vertex is Rz(rz) * Ry(ry) * Rx(rx) * (scale * v)
\* with the standard rotation matrices, and every transformed vertex normal
\* is the same product applied to the unscaled normal, then normalized.
C23_StandardRotations ==
    /\ \A i \in 0..(Len(mesh.vertices) - 1) :
          Transformed(mesh, i)
            = StdRotate(<<mesh.vertices[i + 1][1] * mesh.scale,
                          mesh.vertices[i + 1][2] * mesh.scale,
                          mesh.vertices[i + 1][3] * mesh.scale>>, mesh.rotation)
    /\ \A i \in 0..(Len(mesh.normals) - 1) :
          TransformedNormal(mesh, i) = Normalize3(StdRotate(mesh.normals[i + 1], mesh.rotation))

\* the normalized cross product of (second - first) and (third - first) of
\* a polygon's transformed vertices
CrossNormal(m, poly) ==
    Normalize3(Cross3(Sub3(Transformed(m, poly.vertices[2]), Transformed(m, poly.vertices[1])),
                      Sub3(Transformed(m, poly.vertices[3]), Transformed(m, poly.vertices[1]))))

\* the polygon's first normal index is an index of a mesh normal
HasMeshNormal(m, poly) ==
    /\ poly.normals # <<>>
    /\ poly.normals[1] \in 0..(Len(m.normals) - 1)

\* polygon k of the mesh is culled and colored as the normal n decides
DecidedBy(k, n) ==
    LET cs == PolygonCalls(mesh, sprite, k)
    IN  /\ (cs = <<>>) <=> Culled(mesh, n)
        /\ \A j \in 1..Len(cs) : cs[j].color = LitColor(mesh.polygons[k].color, n)

\* the polygons of three vertices or more
Faces == {k \in 1..Len(mesh.polygons) : Len(mesh.polygons[k].vertices) >= 3}

NamedNormal(k) ==
    IF HasMeshNormal(mesh, mesh.polygons[k])
    THEN TransformedNormal(mesh, mesh.polygons[k].normals[1])
    ELSE CrossNormal(mesh, mesh.polygons[k])

TextureCurrent(b) ==
    /\ b.texture # <<>>
    /\ Len(b.texture[1]) = b.width * b.height
    /\ \A k \in 1..(b.width * b.height) :
          b.texture[1][k] = <<b.palette[b.pixels[k]].r, b.palette[b.pixels[k]].g,
                              b.palette[b.pixels[k]].b, b.palette[b.pixels[k]].a>>

\* C25: a pass of SDLRenderer::renderIndexedPixelBuffer over a visible
\* buffer, called directly or by Mesh3D::render on a visible mesh, leaves
\* the buffer not dirty and the texture holding palette[pixels[k]] for every
\* pixel, also when upload() was never called on the buffer.
C25_Step ==
    ((last'.op = "sdlRender" /\ buf.visible) \/ (last'.op = "renderSDL" /\ mesh.visible /\ buf'.visible)) =>
        /\ ~buf'.dirty
        /\ TextureCurrent(buf')

C25_SdlUploadsDirty == [][C25_Step]_vars

\* the palette the internal buffer has once the mesh is rendered: the one
\* last set on the internal buffer, when re-creation preserves it
RenderPalette(m, b, vp) == ensureBuffer(m, b, vp).buf.palette

\* C26: a palette change on the internal buffer decides the palette the
\* next render leaves; setBufferSize, a change of viewport size and a render
\* leave that palette as it is; and a render leaves the internal buffer with
\* it.  So the palette after a render is the last one set on the buffer.
C26_Step ==
    /\ (last'.op \in {"setPalette", "setPaletteEntry"}) =>
          RenderPalette(mesh', buf', viewport') = buf'.palette
    /\ (last'.op \in {"setBufferSize", "setViewport", "render"}) =>
          RenderPalette(mesh', buf', viewport') = RenderPalette(mesh, buf, viewport)
    /\ (last'.op = "render" /\ mesh.visible) =>
          buf'.palette = RenderPalette(mesh, buf, viewport)

C26_PaletteKept == [][C26_Step]_vars

Representable(a, b) == IF a >= 0 THEN b >= a - IntMax ELSE b <= a + IntMax
Span(a, b) == IF a >= b THEN a - b ELSE b - a

\* at most n + 1 points for a line of end points p, q: n <= max(|dx|, |dy|)
WithinCount(n, p, q) ==
    (Representable(p[1], q[1]) /\ Representable(p[2], q[2])) =>
        n <= (IF Span(p[1], q[1]) >= Span(p[2], q[2]) THEN Span(p[1], q[1]) ELSE Span(p[2], q[2]))

Between(v, a, b) == (a <= v /\ v <= b) \/ (b <= v /\ v <= a)
OneApart(v, w) == v = w \/ (w < IntMax /\ v = w + 1) \/ (w > IntMin /\ v = w - 1)

\* C28 (steps): the loop of drawLine(x0, y0, x1, y1, i) starts at (x0, y0);
\* every point it visits lies in the bounding box of the end points and is
\* at most one apart in x and in y from the point before; it visits no
\* more than max(|x1-x0|, |y1-y0|) + 1 points, and it is left at (x1, y1)
\* after exactly that many.
C28_Step ==
    LET p == <<last'.args[1], last'.args[2]>>
        q == <<last'.args[3], last'.args[4]>>
    IN  /\ (load.pc = "idle" /\ load'.pc = "line") =>
              (load'.x0 = p[1] /\ load'.y0 = p[2] /\ load'.visited = 0)
        /\ (load.pc = "line") =>
              /\ Between(load.x0, p[1], q[1])
              /\ Between(load.y0, p[2], q[2])
              /\ WithinCount(load.visited, p, q)
              /\ IF load'.pc = "line"
                 THEN /\ OneApart(load'.x0, load.x0)
                      /\ OneApart(load'.y0, load.y0)
                      /\ load'.visited = load.visited + 1
                 ELSE /\ load.x0 = q[1] /\ load.y0 = q[2]
                      /\ Representable(p[1], q[1]) /\ Representable(p[2], q[2])
                      /\ WithinCount(load.visited, p, q)
                      /\ ~WithinCount(load.visited + 1, p, q)
                      /\ last'.ret = load.visited + 1

\* C28: drawLine terminates for every pair of end points, and its loop
\* walks as C28 (steps) says.
C28_LineWalk == [][C28_Step]_vars /\ ((load.pc = "line") ~> (load.pc = "idle"))

\* the six orders of three things
Orders == {<<1, 2, 3>>, <<1, 3, 2>>, <<2, 1, 3>>, <<2, 3, 1>>, <<3, 1, 2>>, <<3, 2, 1>>}

\* C29: the pixel array a fillTriangle leaves is the one every other order
\* of the same three vertices leaves on the same starting buffer, also when
\* two vertices share a Y value.
C29_Step ==
    (last'.op = "fillTriangle") =>
        LET a == last'.args
            v == <<<<a[1], a[2]>>, <<a[3], a[4]>>, <<a[5], a[6]>>>>
        IN  \A o \in Orders :
                fillTriangle(Begin(buf), v[o[1]][1], v[o[1]][2], v[o[2]][1], v[o[2]][2],
                             v[o[3]][1], v[o[3]][2], a[7]).pixels = buf'.pixels

FromFactory == mesh.polygons # <<>>

\* C30: in a mesh from createCube, createPyramid or createSphere(radius,
\* segments >= 1) every polygon has at least 3 vertex indices, each of them
\* an index of the vertex array, and a base color in 1..7, so that base,
\* base + 7 and base + 14 lie in 1..21; a sphere has (segments + 1)^2
\* vertices.
C30_WellFormed ==
    FromFactory =>
        /\ \A k \in 1..Len(mesh.polygons) :
              /\ Len(mesh.polygons[k].vertices) >= 3
              /\ \A j \in 1..Len(mesh.polygons[k].vertices) :
                    /\ mesh.polygons[k].vertices[j] >= 0
                    /\ mesh.polygons[k].vertices[j] < Len(mesh.vertices)
              /\ mesh.polygons[k].color \in 1..7
              /\ {mesh.polygons[k].color, mesh.polygons[k].color + 7,
                  mesh.polygons[k].color + 14} \subseteq 1..21
        /\ (last.op = "createSphere") =>
              Len(mesh.vertices) = (last.args[2] + 1) * (last.args[2] + 1)

\* a sphere of 3 segments or more: a polygon reaches the last vertex,
\* another starts at the first, and the colors run up to 6
C30_Witness ==
    /\ last.op = "createSphere"
    /\ last.args[2] >= 3
    /\ \E k \in 1..Len(mesh.polygons) :
          mesh.polygons[k].vertices[2] = Len(mesh.vertices) - 1
    /\ \E k \in 1..Len(mesh.polygons) : mesh.polygons[k].vertices[1] = 0
    /\ \E k \in 1..Len(mesh.polygons) : mesh.polygons[k].color = 6

====
